---- MODULE Spec2Model ----
(***************************************************************************)
(* Session lifecycle and hot-rollover protocol of the voice relay:         *)
(*   - the browser client's rollover coordinator (public/src/main.js),     *)
(*   - the server's socket handlers, disconnect cleanup and idle reaper    *)
(*     (src/server.ts),                                                    *)
(*   - the StreamSession operations the server calls (./client, which is   *)
(*     not part of the sources at hand and is modelled from the written    *)
(*     specification, sections 4.1 and 4.2).                               *)
(*                                                                         *)
(* The specifications share the variables:                                 *)
(*   Spec        the client rollover coordinator and the server's routing  *)
(*               of the events the client emits;                           *)
(*   SpecDisc    the server's disconnect cleanup race;                     *)
(*   SpecReaper  the server's idle reaper.                                 *)
(* FairSpec is Spec with the fairness the browser's timers guarantee.      *)
(*   SpecServer  the server's asynchronous socket handlers of one          *)
(*               connection, interleaved at their awaits;                  *)
(*   SpecReinit  the same handlers from before the connection, with        *)
(*               reinitializeSession;                                      *)
(*   SpecRelay   the relay of the sessions' output events to the socket;   *)
(*   SpecPlayer  the audio player of the page (AudioPlayer.js), with       *)
(*               FairSpecPlayer for its timers;                            *)
(*   SpecHistory the rollover together with the conversation context;      *)
(*   SpecCleanup the handlers with reinitializeSession followed by the     *)
(*               disconnect cleanup;                                       *)
(*   SpecTransport the rollover and the client's disconnect handler.       *)
(***************************************************************************)
EXTENDS Integers, Sequences, FiniteSets, TLC

\* ------------------------------------------------------------------ bounds
MaxShadow == 2          \* shadow sessions requested on one connection
MaxCalls  == 1          \* startBackgroundReinitialization calls alive at once
MaxQueue  == 1          \* client -> server events in flight
MaxPolls  == 1          \* pending checkAudioBufferAndSwitch timers
StartTime == 20000      \* Date.now() when the page has loaded (ms)
MaxTime   == 30000      \* the client clock stops here
MaxDTime  == 4000       \* the clock of the disconnect cleanup stops here
MaxRTime  == 420000     \* the clock of the idle reaper stops here
MaxTasks  == 2          \* socket handlers suspended at an await at once
MaxHistory == 2         \* turns in the history a client supplies
MaxOut    == 2          \* output events the sessions produce
MaxReinit == 1          \* reinitializeSession events on one connection
MaxCtx    == 3          \* AudioContexts the player creates
MaxStarts == 2          \* start() bodies of the player suspended at once
MaxTurns  == 2          \* turns of the conversation the page records

\* --------------------------------------------------------- program constants
REINITIALIZATION_COOLDOWN == 10000
CLEANUP_TIMEOUT == 2000             \* the timer of the disconnect cleanup
SWEEP_INTERVAL  == 60000            \* the period of the idle reaper
IdleThreshold   == 5 * 60 * 1000    \* the idle time the reaper tolerates
QUIET_WINDOW    == 100              \* the quiet time the drain check asks for
CHECK_INTERVAL  == 50               \* the period of the drain check

\* The clocks advance in steps that divide the durations the code compares.
TickStep == REINITIALIZATION_COOLDOWN \div 2
DTick    == CLEANUP_TIMEOUT \div 4
RTick    == SWEEP_INTERVAL \div 2
PTick    == CHECK_INTERVAL \div 2
\* Date.now() - lastAudioTime is compared with QUIET_WINDOW only: beyond
\* QuietCap it is not told apart.
QuietCap == QUIET_WINDOW + PTick

NULL          == -1     \* JavaScript null
SocketSession == 0      \* the session created under socket.id
ShadowIds     == 1..MaxShadow
CtxIds        == 1..MaxCtx
SessionIds    == 0..MaxShadow
Slots         == 1..MaxCalls

VARIABLES
    \* main.js, module-level state
    isBackgroundReinitializing, newSessionId, currentAssistantResponseComplete,
    oldSessionId, isAudioBufferEmpty, hasStartedReinitialization,
    lastReinitializationTime, sessionIdText, isStreaming, sessionInitialized,
    role,
    now,            \* Date.now()
    pollTimers,     \* pending setTimeout(checkAudioBufferAndSwitch, 100)
    bg,             \* the live calls of startBackgroundReinitialization
    \* AudioPlayer
    initialized, bufferEmptyCheckInterval,
    \* transport
    c2s,            \* client -> server events, in order
    acks,           \* backgroundSessionReinitialized events, server -> client
    \* server.ts, per-connection closure state and the session registry
    session, srvSessionInitialized, shadow, nextShadow, sess,
    \* server.ts, socket.on('disconnect')
    dnow,           \* the server clock during the cleanup
    disc,           \* the disconnect event has been handled
    wasActive,      \* isSessionActive(currentSessionId) at that moment
    gpc,            \* the graceful chain: "none", the call in flight, "done"
    dtimer,         \* the 2000 ms timer: "off", "armed", "fired"
    deadline,       \* when the timer is due
    \* server.ts, the idle reaper, and the registry's activity times
    rnow, nextSweep, lastActivity,
    \* server.ts, the socket handlers of one connection
    conn,           \* the socket: "none", "open", "dropped" (socket.disconnect)
    tasks,          \* the handlers suspended at an await
    initiating,     \* per session: the initiateSession promise, if pending,
                    \* and whether a .catch is attached to it
    \* server.ts, setupSessionEventHandlers
    handlers,       \* per session: the callbacks registered with onEvent
    outq,           \* per session: output events produced, not yet dispatched
    emitted,        \* what the socket has emitted to the client, in order
    \* history (not program state)
    ev,             \* what the step just taken did, when it was a handover
                    \* (shadow id, the flags it saw, whether the priming
                    \* events had all been emitted), the streaming of an
                    \* audioInput (where to, and which session the page
                    \* showed as current when it sent the frame), the start
                    \* or the failure of a rollover, or a reaper sweep
    calls,          \* the calls the graceful chain has made, in order
    failed,         \* those of them that threw
    lastStart,      \* when the last rollover was started
    errSinceStart,  \* a rollover error has happened since then
    failedShadow,   \* shadow ids whose rollover ended in an error
    produced,       \* the output events the sessions have produced, in order
    \* AudioPlayer.js, the output resources and the drain check
    audioContext,   \* this.audioContext: a context, or NULL
    workletNode,    \* this.workletNode (and this.recorderNode, which is
                    \* created and dropped with it): a node set, or NULL
    contexts,       \* every AudioContext created: "running" or "closed"
    nodeSets,       \* every node set created: its context, and whether it
                    \* is connected
    starting,       \* the start() bodies suspended at an await
    sinceLastAudio, \* Date.now() - this.lastAudioTime, as far as it matters
    untilCheck,     \* the time until the interval's next callback
    \* main.js, the conversation context
    chatHistory,    \* chat.history
    displayAssistantText,
    turnText,       \* history: "dropped" when a textOutput of the assistant
                    \* turn in progress was not added to chat.history, "lost"
                    \* when such a turn has ended with END_TURN
    \* main.js, the socket.io client
    connected,      \* socket.connected
    \* history (not program state)
    reapedAt,       \* where the graceful chain was when the reaper force
                    \* closed the session ("no": it has not)
    pev,            \* what the step of the player just taken did
    playedSinceNotify, \* playAudio has been called since the last
                    \* buffer-empty notification
    stoppedSince,   \* stop() has returned and playAudio has enqueued
                    \* nothing since
    snapshot,       \* chat.history when the rollover in progress started
    sentHistory     \* what its backgroundConversationResumption carried

rvars == <<isBackgroundReinitializing, newSessionId,
           currentAssistantResponseComplete, oldSessionId, isAudioBufferEmpty,
           hasStartedReinitialization, lastReinitializationTime>>
cvars == <<rvars, sessionIdText, isStreaming, sessionInitialized, role, now,
           pollTimers, bg>>
pvars == <<initialized, bufferEmptyCheckInterval>>
tvars == <<c2s, acks>>
svars == <<session, srvSessionInitialized, shadow, nextShadow, sess>>
dvars == <<dnow, disc, wasActive, gpc, dtimer, deadline, calls, failed>>
reapVars == <<rnow, nextSweep, lastActivity>>
hdlVars == <<conn, tasks, initiating>>
relayVars == <<handlers, outq, emitted, produced>>
gvars == <<lastStart, errSinceStart, failedShadow>>
hvars == <<ev, gvars>>
playVars == <<audioContext, workletNode, contexts, nodeSets, starting,
              sinceLastAudio, untilCheck, pev, playedSinceNotify,
              stoppedSince>>
histVars == <<chatHistory, displayAssistantText, snapshot, sentHistory,
              turnText>>
vars  == <<cvars, pvars, tvars, svars, dvars, reapVars, hdlVars, relayVars,
           hvars, playVars, histVars, reapedAt, connected>>


\* ------------------------------------------------------------------ helpers
Msg(t) == [type |-> t, view |-> NULL]

PrimingEvents == <<Msg("promptStart"), Msg("systemPrompt"),
                   Msg("conversationResumption"), Msg("audioStart")>>

BackgroundPriming == {"backgroundPromptStart", "backgroundSystemPrompt",
                      "backgroundConversationResumption", "backgroundAudioStart"}

NoEvent == [kind |-> "none"]

IdleSlot == [pc |-> "idle", sid |-> NULL]

FreeSlot(s) == /\ bg[s].pc = "idle"
               /\ \A t \in Slots : bg[t].pc = "idle" => s <= t

\* -------------------------------------------- StreamSession (./client)
\* The session operations the server calls.  ./client is not among the
\* sources; the state machine is the one of the written specification.
SessStates == {"NONE", "READY", "PROMPTED", "SYSTEM_PROMPTED", "PRIMED",
               "AUDIO_ACTIVE", "ENDING", "CLOSED"}

isSessionActive(id) == sess[id] \notin {"NONE", "CLOSED"}

\* Does the operation succeed in state st?  The "end" operations with
\* nothing to end are tolerated by every caller and counted as accepted.
Accepts(op, st) ==
    CASE op = "setupPromptStart"  -> st = "READY"
      [] op = "setupSystemPrompt" -> st = "PROMPTED"
      [] op = "setupHistory"      -> st \in {"SYSTEM_PROMPTED", "PRIMED"}
      [] op = "setupStartAudio"   -> st \in {"SYSTEM_PROMPTED", "PRIMED"}
      [] op = "streamAudio"       -> st = "AUDIO_ACTIVE"
      [] op = "endAudioContent"   -> st \notin {"NONE", "CLOSED"}
      [] op = "endPrompt"         -> st \notin {"NONE", "CLOSED"}
      [] op = "close"             -> st \notin {"NONE"}
      [] OTHER                    -> FALSE

\* The state after the operation (unchanged when it is rejected or a no-op).
After(op, st) ==
    IF ~Accepts(op, st) THEN st
    ELSE CASE op = "setupPromptStart"  -> "PROMPTED"
           [] op = "setupSystemPrompt" -> "SYSTEM_PROMPTED"
           [] op = "setupHistory"      -> "PRIMED"
           [] op = "setupStartAudio"   -> "AUDIO_ACTIVE"
           [] op = "streamAudio"       -> "AUDIO_ACTIVE"
           [] op = "endAudioContent"   -> IF st = "AUDIO_ACTIVE" THEN "ENDING" ELSE st
           [] op = "endPrompt"         ->
                IF st \in {"PROMPTED", "SYSTEM_PROMPTED", "PRIMED", "ENDING"}
                THEN "READY" ELSE st
           [] op = "close"             -> "CLOSED"
           [] OTHER                    -> st

forceCloseSession(registry, id) == [registry EXCEPT ![id] = "CLOSED"]

\* ------------------------------------------------- AudioPlayer.js: state
NoNodes == [ctx |-> NULL, connected |-> FALSE]

\* The player after initAudio (main.js 55-92) has awaited its first start():
\* one running context with its node set connected, no frame played yet.
PlayerInit ==
    /\ audioContext = 1
    /\ workletNode = 1
    /\ contexts = [c \in CtxIds |-> IF c = 1 THEN "running" ELSE "none"]
    /\ nodeSets = [n \in CtxIds |->
                     IF n = 1 THEN [ctx |-> 1, connected |-> TRUE] ELSE NoNodes]
    /\ starting = [closing |-> 0, adding |-> 0]
    /\ sinceLastAudio = QuietCap
    /\ untilCheck = 0
    /\ pev = NoEvent
    /\ playedSinceNotify = FALSE
    /\ stoppedSince = FALSE

\* No conversation yet.
HistoryInit ==
    /\ chatHistory = <<>>
    /\ displayAssistantText = FALSE
    /\ snapshot = <<>>
    /\ sentHistory = <<>>
    /\ turnText = "ok"

\* ------------------------------------------------------------------ Init
\* The page has loaded (initAudio has started the player and registered the
\* buffer-empty listener), the socket is connected and initializeSession has
\* sent the priming events.
ClientInit ==
    /\ isBackgroundReinitializing = FALSE
    /\ newSessionId = NULL
    /\ currentAssistantResponseComplete = FALSE
    /\ oldSessionId = NULL
    /\ isAudioBufferEmpty = FALSE
    /\ hasStartedReinitialization = FALSE
    /\ lastReinitializationTime = 0
    /\ sessionIdText = SocketSession
    /\ connected = TRUE
    /\ isStreaming = FALSE
    /\ sessionInitialized = TRUE
    /\ role = "NONE"
    /\ now = StartTime
    /\ pollTimers = 0
    /\ bg = [s \in Slots |-> IdleSlot]
    /\ initialized = TRUE
    /\ bufferEmptyCheckInterval = FALSE
    /\ c2s = <<>>
    /\ acks = <<>>
    /\ ev = NoEvent
    /\ lastStart = NULL
    /\ errSinceStart = FALSE
    /\ failedShadow = {}
    /\ PlayerInit
    /\ HistoryInit

\* The callbacks setupSessionEventHandlers registers on a session: one for
\* each output event, each emitting on the socket under a name.
OutputEvents == {"contentStart", "textOutput", "audioOutput", "error",
                 "toolUse", "toolResult", "contentEnd", "streamComplete"}

\* callbacks that forward textOutput under another name
setupSessionEventHandlers_Renamed ==
    <<[on |-> "contentStart",   emit |-> "contentStart"],
      [on |-> "textOutput",     emit |-> "contentStart"],
      [on |-> "audioOutput",    emit |-> "audioOutput"],
      [on |-> "error",          emit |-> "error"],
      [on |-> "toolUse",        emit |-> "toolUse"],
      [on |-> "toolResult",     emit |-> "toolResult"],
      [on |-> "contentEnd",     emit |-> "contentEnd"],
      [on |-> "streamComplete", emit |-> "streamComplete"]>>

setupSessionEventHandlers ==
    <<[on |-> "contentStart",   emit |-> "contentStart"],
      [on |-> "textOutput",     emit |-> "textOutput"],
      [on |-> "audioOutput",    emit |-> "audioOutput"],
      [on |-> "error",          emit |-> "error"],
      [on |-> "toolUse",        emit |-> "toolUse"],
      [on |-> "toolResult",     emit |-> "toolResult"],
      [on |-> "contentEnd",     emit |-> "contentEnd"],
      [on |-> "streamComplete", emit |-> "streamComplete"]>>

TaskSlots == 1..MaxTasks

NoCall == [op |-> "none", arg |-> "-", tol |-> FALSE]

IdleTask == [h |-> "idle", rest |-> <<>>, cur |-> NoCall, out |-> "none",
             st |-> "NONE", given |-> <<>>, i |-> 0, c |-> 0, log |-> <<>>]

\* The connection handler has run: no socket handler is suspended, the
\* session's initiation has settled, its output callbacks are registered.
HandlersInit ==
    /\ conn = "open"
    /\ tasks = [t \in TaskSlots |-> IdleTask]
    /\ initiating = [i \in SessionIds |-> "idle"]
    /\ handlers = [i \in SessionIds |->
                     IF i = SocketSession THEN setupSessionEventHandlers
                     ELSE <<>>]
    /\ outq = [i \in SessionIds |-> <<>>]
    /\ emitted = <<>>
    /\ produced = <<>>

\* The connection handler has created the session under socket.id.
ConnectionInit ==
    /\ HandlersInit
    /\ session = SocketSession
    /\ srvSessionInitialized = TRUE
    /\ shadow = NULL
    /\ nextShadow = 1

\* No disconnect yet.
CleanupInit ==
    /\ dnow = 0
    /\ disc = FALSE
    /\ wasActive = FALSE
    /\ gpc = "none"
    /\ dtimer = "off"
    /\ deadline = 0
    /\ calls = <<>>
    /\ failed = {}
    /\ reapedAt = "no"

\* The reaper's interval has just been set.
ReaperInit ==
    /\ rnow = 0
    /\ nextSweep = SWEEP_INTERVAL
    /\ lastActivity = [i \in SessionIds |-> 0]

\* Spec starts with the connection's session primed by the server.
Init ==
    /\ ClientInit
    /\ ConnectionInit
    /\ CleanupInit
    /\ ReaperInit
    /\ sess = [i \in SessionIds |-> IF i = SocketSession THEN "AUDIO_ACTIVE" ELSE "NONE"]

\* ------------------------------------------------- client: main.js
\* Has the call that obtained shadow id k emitted its four priming events?
\* (A call that has returned has; one that threw has cleared newSessionId.)
PrimingSent(k) == \A s \in Slots : bg[s].sid = k => bg[s].pc = "finish"

\* startStreaming(), reached with isStreaming false: initializeSession() when
\* the session is not initialized, then isStreaming = true.  The whole body
\* runs without yielding to another handler.
startStreaming ==
    /\ IF sessionInitialized
       THEN c2s' = c2s
       ELSE /\ Len(c2s) + Len(PrimingEvents) <= MaxQueue
            /\ c2s' = c2s \o PrimingEvents
    /\ sessionInitialized' = TRUE
    /\ isStreaming' = TRUE

\* Mutant: a successful handover also resets the cooldown.
switchToNewSession_ResetsCooldown(fault, arc, abe) ==
    IF newSessionId = NULL \/ ~arc
    THEN /\ currentAssistantResponseComplete' = arc
         /\ isAudioBufferEmpty' = abe
         /\ ev' = NoEvent
         /\ UNCHANGED <<sessionIdText, isBackgroundReinitializing, newSessionId,
                        oldSessionId, hasStartedReinitialization,
                        lastReinitializationTime, isStreaming,
                        sessionInitialized, c2s, errSinceStart, failedShadow>>
    ELSE /\ isBackgroundReinitializing' = FALSE
         /\ newSessionId' = NULL
         /\ currentAssistantResponseComplete' = FALSE
         /\ oldSessionId' = NULL
         /\ isAudioBufferEmpty' = FALSE
         /\ hasStartedReinitialization' = FALSE
         /\ lastReinitializationTime' = 0
         /\ IF fault
            THEN /\ errSinceStart' = TRUE
                 /\ failedShadow' = failedShadow \cup {newSessionId}
                 /\ ev' = [kind |-> "rolloverError"]
                 /\ UNCHANGED <<sessionIdText, isStreaming, sessionInitialized,
                                c2s>>
            ELSE /\ sessionIdText' = newSessionId
                 /\ ev' = [kind |-> "handover", sid |-> newSessionId,
                           arc |-> arc, abe |-> abe,
                           primed |-> PrimingSent(newSessionId)]
                 /\ IF isStreaming
                    THEN UNCHANGED <<isStreaming, sessionInitialized, c2s>>
                    ELSE startStreaming
                 /\ UNCHANGED <<errSinceStart, failedShadow>>

\* switchToNewSession().  arc and abe are the values of
\* currentAssistantResponseComplete and isAudioBufferEmpty on entry (the
\* calling handler may have assigned them just before the call); fault says
\* that the try block throws.
switchToNewSession(fault, arc, abe) ==
    IF newSessionId = NULL \/ ~arc
    THEN /\ currentAssistantResponseComplete' = arc
         /\ isAudioBufferEmpty' = abe
         /\ ev' = NoEvent
         /\ UNCHANGED <<sessionIdText, isBackgroundReinitializing, newSessionId,
                        oldSessionId, hasStartedReinitialization,
                        lastReinitializationTime, isStreaming,
                        sessionInitialized, c2s, errSinceStart, failedShadow>>
    ELSE /\ isBackgroundReinitializing' = FALSE
         /\ newSessionId' = NULL
         /\ currentAssistantResponseComplete' = FALSE
         /\ oldSessionId' = NULL
         /\ isAudioBufferEmpty' = FALSE
         /\ hasStartedReinitialization' = FALSE
         /\ IF fault
            THEN /\ lastReinitializationTime' = 0
                 /\ errSinceStart' = TRUE
                 /\ failedShadow' = failedShadow \cup {newSessionId}
                 /\ ev' = [kind |-> "rolloverError"]
                 /\ UNCHANGED <<sessionIdText, isStreaming, sessionInitialized,
                                c2s>>
            ELSE /\ sessionIdText' = newSessionId
                 /\ ev' = [kind |-> "handover", sid |-> newSessionId,
                           arc |-> arc, abe |-> abe,
                           primed |-> PrimingSent(newSessionId)]
                 /\ IF isStreaming
                    THEN UNCHANGED <<isStreaming, sessionInitialized, c2s>>
                    ELSE startStreaming
                 /\ UNCHANGED <<lastReinitializationTime, errSinceStart,
                                failedShadow>>

\* Mutant: the switch is made without looking at isAudioBufferEmpty.
checkAudioBufferAndSwitch_NoCheck(fault, arc, timers) ==
    /\ switchToNewSession(fault, arc, isAudioBufferEmpty)
    /\ pollTimers' = timers

\* checkAudioBufferAndSwitch(), entered with timers pending polls besides
\* the one (if any) that is running it.
checkAudioBufferAndSwitch(fault, arc, timers) ==
    IF isAudioBufferEmpty
    THEN /\ switchToNewSession(fault, arc, isAudioBufferEmpty)
         /\ pollTimers' = timers
    ELSE /\ timers < MaxPolls
         /\ pollTimers' = timers + 1
         /\ currentAssistantResponseComplete' = arc
         /\ ev' = NoEvent
         /\ UNCHANGED <<sessionIdText, isBackgroundReinitializing, newSessionId,
                        oldSessionId, isAudioBufferEmpty,
                        hasStartedReinitialization, lastReinitializationTime,
                        isStreaming, sessionInitialized, c2s, errSinceStart,
                        failedShadow>>

\* Mutant: a rollover in flight does not stop the trigger.
ShouldStart_IgnoresInFlight ==
    /\ ~hasStartedReinitialization
    /\ now - lastReinitializationTime >= REINITIALIZATION_COOLDOWN

\* Mutant: the cooldown is not looked at.
ShouldStart_NoCooldown ==
    /\ ~isBackgroundReinitializing
    /\ ~hasStartedReinitialization

\* The condition under which an assistant TEXT contentStart starts a rollover.
ShouldStartReinitialization ==
    /\ ~isBackgroundReinitializing
    /\ ~hasStartedReinitialization
    /\ now - lastReinitializationTime >= REINITIALIZATION_COOLDOWN

\* startBackgroundReinitialization() up to its first await, in slot s;
\* fault says that the emit throws, which runs the catch block.
startBackgroundReinitialization(s, fault) ==
    IF isBackgroundReinitializing
    THEN UNCHANGED <<isBackgroundReinitializing, newSessionId, bg, c2s>>
    ELSE /\ FreeSlot(s)
         /\ newSessionId' = NULL
         /\ IF fault
            THEN /\ isBackgroundReinitializing' = FALSE
                 /\ UNCHANGED <<bg, c2s>>
            ELSE /\ Len(c2s) < MaxQueue
                 /\ c2s' = Append(c2s, Msg("backgroundReinitializeSession"))
                 /\ isBackgroundReinitializing' = TRUE
                 /\ bg' = [bg EXCEPT ![s] = [pc |-> "awaitAck", sid |-> NULL]]

\* socket.on('contentStart').  fault: startBackgroundReinitialization throws
\* and its catch block resets hasStartedReinitialization and the cooldown.
ContentStart(type, r, fault) ==
    /\ IF type = "TEXT"
       THEN /\ role' = r
            /\ IF r = "ASSISTANT" /\ ShouldStartReinitialization
               THEN /\ currentAssistantResponseComplete' = FALSE
                    /\ isAudioBufferEmpty' = FALSE
                    /\ oldSessionId' = sessionIdText
                    /\ LET caught == fault /\ ~isBackgroundReinitializing
                       IN  /\ hasStartedReinitialization' = ~caught
                           /\ lastReinitializationTime' = IF caught THEN 0 ELSE now
                    /\ \E s \in Slots : startBackgroundReinitialization(s, fault)
                    /\ lastStart' = now
                    /\ errSinceStart' = fault
                    /\ ev' = [kind |-> "start", prev |-> lastStart,
                              err |-> errSinceStart, failed |-> fault]
               ELSE /\ hasStartedReinitialization' =
                          IF r = "USER" THEN FALSE ELSE hasStartedReinitialization
                    /\ ev' = IF r = "ASSISTANT" THEN [kind |-> "skipped"]
                             ELSE NoEvent
                    /\ UNCHANGED <<currentAssistantResponseComplete,
                                   isAudioBufferEmpty, oldSessionId,
                                   lastReinitializationTime,
                                   isBackgroundReinitializing, newSessionId, bg,
                                   c2s, lastStart, errSinceStart>>
       ELSE /\ ev' = NoEvent
            /\ UNCHANGED <<role, rvars, bg, c2s, lastStart, errSinceStart>>
    /\ UNCHANGED <<sessionIdText, isStreaming, sessionInitialized, now,
                   pollTimers, pvars, acks, svars, failedShadow>>

\* socket.on('contentEnd').
ContentEnd(type, fault) ==
    /\ IF type = "TEXT" /\ role = "ASSISTANT"
       THEN IF isBackgroundReinitializing /\ newSessionId # NULL
            THEN checkAudioBufferAndSwitch(fault, TRUE, pollTimers)
            ELSE /\ currentAssistantResponseComplete' = TRUE
                 /\ ev' = NoEvent
                 /\ UNCHANGED <<sessionIdText, isBackgroundReinitializing,
                                newSessionId, oldSessionId, isAudioBufferEmpty,
                                hasStartedReinitialization,
                                lastReinitializationTime, isStreaming,
                                sessionInitialized, c2s, errSinceStart,
                                failedShadow, pollTimers>>
       ELSE /\ ev' = NoEvent
            /\ UNCHANGED <<rvars, sessionIdText, isStreaming,
                           sessionInitialized, c2s, errSinceStart,
                           failedShadow, pollTimers>>
    /\ UNCHANGED <<role, now, bg, pvars, acks, svars, lastStart>>

\* The timer armed by checkAudioBufferAndSwitch fires.
Poll(fault) ==
    /\ pollTimers > 0
    /\ checkAudioBufferAndSwitch(fault, currentAssistantResponseComplete,
                                 pollTimers - 1)
    /\ UNCHANGED <<role, now, bg, pvars, acks, svars, lastStart>>

\* socket.on('audioOutput') with content: AudioPlayer.playAudio, then the flag.
AudioOutput ==
    /\ isAudioBufferEmpty' = FALSE
    /\ bufferEmptyCheckInterval' =
          IF initialized THEN TRUE ELSE bufferEmptyCheckInterval
    /\ ev' = NoEvent
    /\ UNCHANGED <<isBackgroundReinitializing, newSessionId,
                   currentAssistantResponseComplete, oldSessionId,
                   hasStartedReinitialization, lastReinitializationTime,
                   sessionIdText, isStreaming, sessionInitialized, role, now,
                   pollTimers, bg, initialized, tvars, svars, gvars>>

\* The drain check of AudioPlayer.startBufferEmptyCheck finds the quiet window
\* elapsed: it calls the listener registered in initAudio and clears itself.
BufferEmpty(fault) ==
    /\ bufferEmptyCheckInterval
    /\ bufferEmptyCheckInterval' = FALSE
    /\ IF isBackgroundReinitializing /\ newSessionId # NULL
          /\ currentAssistantResponseComplete
       THEN switchToNewSession(fault, currentAssistantResponseComplete, TRUE)
       ELSE /\ isAudioBufferEmpty' = TRUE
            /\ ev' = NoEvent
            /\ UNCHANGED <<currentAssistantResponseComplete, sessionIdText,
                           isBackgroundReinitializing, newSessionId,
                           oldSessionId, hasStartedReinitialization,
                           lastReinitializationTime, isStreaming,
                           sessionInitialized, c2s, errSinceStart,
                           failedShadow>>
    /\ UNCHANGED <<role, now, pollTimers, bg, initialized, acks, svars,
                   lastStart>>

\* socket.once('backgroundSessionReinitialized'): every call waiting for the
\* acknowledgement takes the id and goes on to its 500 ms wait.
BackgroundSessionReinitialized ==
    /\ acks # <<>>
    /\ acks' = Tail(acks)
    /\ IF \E s \in Slots : bg[s].pc = "awaitAck"
       THEN /\ newSessionId' = Head(acks)
            /\ bg' = [s \in Slots |->
                        IF bg[s].pc = "awaitAck"
                        THEN [pc |-> "emitPromptStart", sid |-> Head(acks)]
                        ELSE bg[s]]
       ELSE UNCHANGED <<newSessionId, bg>>
    /\ ev' = NoEvent
    /\ UNCHANGED <<isBackgroundReinitializing, currentAssistantResponseComplete,
                   oldSessionId, isAudioBufferEmpty, hasStartedReinitialization,
                   lastReinitializationTime, sessionIdText, isStreaming,
                   sessionInitialized, role, now, pollTimers, pvars, c2s, svars,
                   gvars>>

\* The event a call of startBackgroundReinitialization emits at pc, and the
\* position after it.
BgEvent(pc) ==
    CASE pc = "emitPromptStart"            -> "backgroundPromptStart"
      [] pc = "emitSystemPrompt"           -> "backgroundSystemPrompt"
      [] pc = "emitConversationResumption" -> "backgroundConversationResumption"
      [] pc = "emitAudioStart"             -> "backgroundAudioStart"

BgNext(pc) ==
    CASE pc = "emitPromptStart"            -> "emitSystemPrompt"
      [] pc = "emitSystemPrompt"           -> "emitConversationResumption"
      [] pc = "emitConversationResumption" -> "emitAudioStart"
      [] pc = "emitAudioStart"             -> "finish"

\* The catch block of startBackgroundReinitialization, run by the call in
\* slot s.
BackgroundCatch(s) ==
    /\ isBackgroundReinitializing' = FALSE
    /\ newSessionId' = NULL
    /\ hasStartedReinitialization' = FALSE
    /\ lastReinitializationTime' = 0
    /\ errSinceStart' = TRUE
    /\ failedShadow' = IF bg[s].sid = NULL THEN failedShadow
                       ELSE failedShadow \cup {bg[s].sid}

\* One of the timers awaited by startBackgroundReinitialization fires: the
\* call emits its next priming event, or throws and runs its catch block.
BackgroundStep(s, fault) ==
    /\ bg[s].pc \in {"emitPromptStart", "emitSystemPrompt",
                     "emitConversationResumption", "emitAudioStart"}
    /\ IF fault
       THEN /\ BackgroundCatch(s)
            /\ bg' = [bg EXCEPT ![s] = IdleSlot]
            /\ ev' = [kind |-> "rolloverError"]
            /\ UNCHANGED c2s
       ELSE /\ Len(c2s) < MaxQueue
            /\ c2s' = Append(c2s, Msg(BgEvent(bg[s].pc)))
            /\ bg' = [bg EXCEPT ![s].pc = BgNext(bg[s].pc)]
            /\ ev' = NoEvent
            /\ UNCHANGED <<isBackgroundReinitializing, newSessionId,
                           hasStartedReinitialization, lastReinitializationTime,
                           errSinceStart, failedShadow>>
    /\ UNCHANGED <<currentAssistantResponseComplete, oldSessionId,
                   isAudioBufferEmpty, sessionIdText, isStreaming,
                   sessionInitialized, role, now, pollTimers, pvars, acks,
                   svars, lastStart>>

\* The last 500 ms wait of startBackgroundReinitialization is over.
BackgroundFinish(s) ==
    /\ bg[s].pc = "finish"
    /\ bg' = [bg EXCEPT ![s] = IdleSlot]
    /\ ev' = NoEvent
    /\ UNCHANGED <<rvars, sessionIdText, isStreaming, sessionInitialized, role,
                   now, pollTimers, pvars, tvars, svars, gvars>>

\* stopStreaming(), reached with isStreaming true: AudioPlayer.stop() and the
\* stopAudio event.
stopStreaming ==
    /\ Len(c2s) < MaxQueue
    /\ isStreaming' = FALSE
    /\ bufferEmptyCheckInterval' = FALSE
    /\ initialized' = FALSE
    /\ c2s' = Append(c2s, Msg("stopAudio"))

\* Click on the Start button.
StartClick ==
    /\ ~isStreaming
    /\ startStreaming
    /\ ev' = NoEvent
    /\ UNCHANGED <<rvars, sessionIdText, role, now, pollTimers, bg, pvars,
                   acks, svars, gvars>>

\* Click on the Stop button, or socket.on('streamComplete') while streaming.
StopClick ==
    /\ isStreaming
    /\ stopStreaming
    /\ ev' = NoEvent
    /\ UNCHANGED <<rvars, sessionIdText, sessionInitialized, role, now,
                   pollTimers, bg, acks, svars, gvars>>

\* processor.onaudioprocess: one microphone frame is sent.  The message
\* remembers which session the page showed as current.
OnAudioProcess ==
    /\ isStreaming
    /\ Len(c2s) < MaxQueue
    /\ c2s' = Append(c2s, [type |-> "audioInput", view |-> sessionIdText])
    /\ ev' = NoEvent
    /\ UNCHANGED <<cvars, pvars, acks, svars, gvars>>

\* Time passes on the client.
Tick ==
    /\ now + TickStep <= MaxTime
    /\ now' = now + TickStep
    /\ ev' = NoEvent
    /\ UNCHANGED <<rvars, sessionIdText, isStreaming, sessionInitialized, role,
                   pollTimers, bg, pvars, tvars, svars, gvars>>

\* ------------------------------------------------- server: server.ts
\* socket.on('audioInput'): session.streamAudio on the connection's session;
\* a rejection is reported to the client as an error event.
ServerAudioInput ==
    /\ c2s # <<>>
    /\ Head(c2s).type = "audioInput"
    /\ c2s' = Tail(c2s)
    /\ IF Accepts("streamAudio", sess[session])
       THEN /\ sess' = [sess EXCEPT ![session] = After("streamAudio", @)]
            /\ ev' = [kind |-> "streamAudio", to |-> session,
                      view |-> Head(c2s).view]
       ELSE /\ ev' = NoEvent
            /\ UNCHANGED sess
    /\ UNCHANGED <<cvars, pvars, acks, session, srvSessionInitialized, shadow,
                   nextShadow, gvars>>

\* socket.on('stopAudio'): endAudioContent, endPrompt, close in a chain.
ServerStopAudio ==
    /\ c2s # <<>>
    /\ Head(c2s).type = "stopAudio"
    /\ c2s' = Tail(c2s)
    /\ sess' = [sess EXCEPT ![session] =
                   After("close", After("endPrompt", After("endAudioContent", @)))]
    /\ ev' = NoEvent
    /\ UNCHANGED <<cvars, pvars, acks, session, srvSessionInitialized, shadow,
                   nextShadow, gvars>>

\* The handler of backgroundReinitializeSession (not in server.ts; from the
\* written specification, 4.3 step 2): create and initiate a shadow session
\* under a new id and acknowledge it.  ok = FALSE: creation or initiation
\* fails, which is reported as an error event and not acknowledged.
ServerBackgroundReinitializeSession(ok) ==
    /\ c2s # <<>>
    /\ Head(c2s).type = "backgroundReinitializeSession"
    /\ c2s' = Tail(c2s)
    /\ IF ok /\ nextShadow <= MaxShadow
       THEN /\ sess' = [sess EXCEPT ![nextShadow] = "READY"]
            /\ shadow' = nextShadow
            /\ nextShadow' = nextShadow + 1
            /\ acks' = Append(acks, nextShadow)
       ELSE UNCHANGED <<sess, shadow, nextShadow, acks>>
    /\ ev' = NoEvent
    /\ UNCHANGED <<cvars, pvars, session, srvSessionInitialized, gvars>>

\* The session operation a background priming event stands for.
BgOp(type) ==
    CASE type = "backgroundPromptStart"            -> "setupPromptStart"
      [] type = "backgroundSystemPrompt"           -> "setupSystemPrompt"
      [] type = "backgroundConversationResumption" -> "setupHistory"
      [] type = "backgroundAudioStart"             -> "setupStartAudio"

\* The handlers of the background priming events (not in server.ts; from the
\* written specification, 4.3 step 3): the operation is applied to the shadow
\* session and never to the connection's active session.
ServerBackgroundPriming ==
    /\ c2s # <<>>
    /\ Head(c2s).type \in BackgroundPriming
    /\ c2s' = Tail(c2s)
    /\ IF shadow # NULL
       THEN sess' = [sess EXCEPT ![shadow] = After(BgOp(Head(c2s).type), @)]
       ELSE UNCHANGED sess
    /\ ev' = NoEvent
    /\ UNCHANGED <<cvars, pvars, acks, session, srvSessionInitialized, shadow,
                   nextShadow, gvars>>

\* ------------------------------------------------- specification
\* a step of the client or of the connection's handlers leaves the disconnect
\* cleanup and the reaper alone
RolloverStep(A) == A /\ UNCHANGED <<dvars, reapVars, hdlVars, relayVars,
                                    playVars, histVars, reapedAt, connected>>

Next ==
    \/ RolloverStep(\E t \in {"TEXT", "AUDIO"}, r \in {"USER", "ASSISTANT"},
                        f \in BOOLEAN : ContentStart(t, r, f))
    \/ RolloverStep(\E t \in {"TEXT", "AUDIO"}, f \in BOOLEAN :
                        ContentEnd(t, f))
    \/ RolloverStep(\E f \in BOOLEAN : Poll(f))
    \/ RolloverStep(AudioOutput)
    \/ RolloverStep(\E f \in BOOLEAN : BufferEmpty(f))
    \/ RolloverStep(BackgroundSessionReinitialized)
    \/ RolloverStep(\E s \in Slots, f \in BOOLEAN : BackgroundStep(s, f))
    \/ RolloverStep(\E s \in Slots : BackgroundFinish(s))
    \/ RolloverStep(StartClick)
    \/ RolloverStep(StopClick)
    \/ RolloverStep(OnAudioProcess)
    \/ RolloverStep(Tick)
    \/ RolloverStep(ServerAudioInput)
    \/ RolloverStep(ServerStopAudio)
    \/ RolloverStep(\E ok \in BOOLEAN :
                        ServerBackgroundReinitializeSession(ok))
    \/ RolloverStep(ServerBackgroundPriming)

Spec == Init /\ [][Next]_vars

TypeOK ==
    /\ newSessionId \in ShadowIds \cup {NULL}
    /\ sessionIdText \in SessionIds
    /\ pollTimers \in 0..MaxPolls
    /\ Len(c2s) <= MaxQueue
    /\ \A i \in SessionIds : sess[i] \in SessStates

\* FairSpec: the browser fires every armed timer, the transport delivers what
\* was sent and the server handles what it receives.  Events of the speech
\* model, clicks and faults are under no obligation to happen.
FairSpec ==
    /\ Spec
    /\ WF_vars(RolloverStep(\E f \in BOOLEAN : Poll(f)))
    /\ WF_vars(RolloverStep(\E f \in BOOLEAN : BufferEmpty(f)))
    /\ WF_vars(RolloverStep(BackgroundSessionReinitialized))
    /\ WF_vars(RolloverStep(\E s \in Slots : BackgroundStep(s, FALSE)))
    /\ WF_vars(RolloverStep(\E s \in Slots : BackgroundFinish(s)))
    /\ WF_vars(RolloverStep(Tick))
    /\ WF_vars(RolloverStep(ServerAudioInput))
    /\ WF_vars(RolloverStep(ServerStopAudio))
    /\ WF_vars(RolloverStep(\E ok \in BOOLEAN :
                                ServerBackgroundReinitializeSession(ok)))
    /\ WF_vars(RolloverStep(ServerBackgroundPriming))

\* ------------------------------------------------- claims
\* C1: a handover (switchToNewSession making the shadow id current and
\* clearing the rollover state) happens only at an instant where
\* currentAssistantResponseComplete and isAudioBufferEmpty are both true.
C1_HandoverSeesBoth == ev.kind = "handover" => ev.arc /\ ev.abe

C1_Witness == ev.kind = "handover" /\ sessionIdText \in ShadowIds

\* C2: a rollover that has started eventually ends: isBackgroundReinitializing
\* becomes false again, also when the two conditions are never seen or the
\* shadow session is never acknowledged.
C2_RolloverEnds == isBackgroundReinitializing ~> ~isBackgroundReinitializing

\* C3: an assistant TEXT contentStart handled while a rollover is in flight
\* emits nothing and changes no rollover state.
C3_SecondTriggerNoOp ==
    [][(isBackgroundReinitializing
          /\ \E f \in BOOLEAN : ContentStart("TEXT", "ASSISTANT", f))
       => UNCHANGED <<rvars, c2s, bg, pollTimers>>]_vars

C3_Witness == ev.kind = "skipped" /\ isBackgroundReinitializing

\* C4: a handover happens only after the four background priming events have
\* been sent for the shadow session it switches to.
C4_HandoverAfterPriming == ev.kind = "handover" => ev.primed

\* C5: an audioInput sent after a handover is streamed to the shadow session
\* the client switched to, and the session it replaced has been closed.
C5_AudioGoesToShadow ==
    (ev.kind = "streamAudio" /\ ev.view \in ShadowIds)
       => ev.to = ev.view /\ ~isSessionActive(SocketSession)

\* C6: when a rollover fails, the rollover state is cleared, the original
\* session stays the connection's session, and the shadow session is closed
\* (once the server has handled everything the client sent).
C6_FailureCleansUp ==
    /\ (ev.kind = "rolloverError" \/ (ev.kind = "start" /\ ev.failed))
          => /\ ~isBackgroundReinitializing
             /\ newSessionId = NULL
             /\ session = SocketSession
    /\ c2s = <<>> => \A k \in failedShadow : ~isSessionActive(k)

InitDisc ==
    /\ ClientInit
    /\ ConnectionInit
    /\ CleanupInit
    /\ ReaperInit
    /\ \E st \in SessStates \ {"NONE"} :
          sess = [i \in SessionIds |-> IF i = SocketSession THEN st ELSE "NONE"]

\* socket.on('disconnect') up to its first await: when the session is active
\* the graceful chain calls endAudioContent and the 2000 ms timer is armed.
Disconnect ==
    /\ ~disc
    /\ disc' = TRUE
    /\ wasActive' = isSessionActive(session)
    /\ IF isSessionActive(session)
       THEN /\ gpc' = "endAudioContent"
            /\ calls' = <<"endAudioContent">>
            /\ dtimer' = "armed"
            /\ deadline' = dnow + CLEANUP_TIMEOUT
       ELSE UNCHANGED <<gpc, calls, dtimer, deadline>>
    /\ UNCHANGED <<dnow, failed, sess>>

\* The call the graceful chain makes after the one at pc has returned or
\* thrown.
ChainNext(pc) ==
    CASE pc = "endAudioContent" -> "endPrompt"
      [] pc = "endPrompt"       -> "close"

\* Mutant: one try/catch around the three calls, so that the first throw
\* goes straight to forceCloseSession.
GracefulReturn_AbortsOnFault(ok) ==
    /\ gpc \in {"endAudioContent", "endPrompt", "close"}
    /\ LET success == ok /\ Accepts(gpc, sess[session])
       IN  /\ failed' = IF success THEN failed ELSE failed \cup {gpc}
           /\ IF success
              THEN /\ sess' = [sess EXCEPT ![session] = After(gpc, @)]
                   /\ gpc' = IF gpc = "close" THEN "done" ELSE ChainNext(gpc)
                   /\ calls' = IF gpc = "close" THEN calls
                               ELSE Append(calls, ChainNext(gpc))
              ELSE /\ sess' = forceCloseSession(sess, session)
                   /\ gpc' = "done"
                   /\ calls' = Append(calls, "forceCloseSession")
    /\ UNCHANGED <<dnow, disc, wasActive, dtimer, deadline>>

\* The call the graceful chain awaits returns (ok) or throws.  A call that
\* the session rejects throws.  Each of endAudioContent and endPrompt is in a
\* try/catch of its own; a throwing close reaches the catch of the chain,
\* which calls forceCloseSession.
GracefulReturn(ok) ==
    /\ gpc \in {"endAudioContent", "endPrompt", "close"}
    /\ LET success == ok /\ Accepts(gpc, sess[session])
       IN  /\ failed' = IF success THEN failed ELSE failed \cup {gpc}
           /\ IF gpc = "close"
              THEN /\ gpc' = "done"
                   /\ IF success
                      THEN /\ sess' = [sess EXCEPT ![session] = After("close", @)]
                           /\ UNCHANGED calls
                      ELSE /\ sess' = forceCloseSession(sess, session)
                           /\ calls' = Append(calls, "forceCloseSession")
              ELSE /\ gpc' = ChainNext(gpc)
                   /\ calls' = Append(calls, ChainNext(gpc))
                   /\ sess' = IF success
                              THEN [sess EXCEPT ![session] = After(gpc, @)]
                              ELSE sess
    /\ UNCHANGED <<dnow, disc, wasActive, dtimer, deadline>>

\* Mutant: the timer only rejects the race.
DisconnectTimeout_NoForceClose ==
    /\ dtimer = "armed"
    /\ dnow >= deadline
    /\ dtimer' = "fired"
    /\ UNCHANGED <<dnow, disc, wasActive, gpc, deadline, calls, failed, sess>>

\* The 2000 ms timer of the cleanup fires: forceCloseSession, whatever the
\* graceful chain has done.
DisconnectTimeout ==
    /\ dtimer = "armed"
    /\ dnow >= deadline
    /\ dtimer' = "fired"
    /\ sess' = forceCloseSession(sess, session)
    /\ UNCHANGED <<dnow, disc, wasActive, gpc, deadline, calls, failed>>

\* Time passes on the server; a timer that is due fires before more passes.
DiscTick ==
    /\ dnow + DTick <= MaxDTime
    /\ ~(dtimer = "armed" /\ dnow >= deadline)
    /\ dnow' = dnow + DTick
    /\ UNCHANGED <<disc, wasActive, gpc, dtimer, deadline, calls, failed, sess>>

CleanupStep(A) ==
    A /\ UNCHANGED <<cvars, pvars, tvars, session, srvSessionInitialized,
                     shadow, nextShadow, reapVars, hdlVars, relayVars, hvars,
                     playVars, histVars, reapedAt, connected>>

\* A sweep of the idle reaper falls into the cleanup and finds the session,
\* still active, idle for more than five minutes: forceCloseSession.
ReaperForceClose ==
    /\ disc
    /\ isSessionActive(session)
    /\ sess' = forceCloseSession(sess, session)
    /\ reapedAt' = gpc
    /\ UNCHANGED <<cvars, pvars, tvars, session, srvSessionInitialized,
                   shadow, nextShadow, dvars, reapVars, hdlVars, relayVars,
                   hvars, playVars, histVars, connected>>

NextDisc ==
    \/ CleanupStep(Disconnect)
    \/ CleanupStep(\E ok \in BOOLEAN : GracefulReturn(ok))
    \/ CleanupStep(DisconnectTimeout)
    \/ CleanupStep(DiscTick)
    \/ ReaperForceClose

SpecDisc == InitDisc /\ [][NextDisc]_vars

\* ------------------------------------------------- server: idle reaper
ReaperSessions == SessionIds

InitReaper ==
    /\ ClientInit
    /\ ConnectionInit
    /\ CleanupInit
    /\ ReaperInit
    /\ sess = [i \in SessionIds |-> IF i = SocketSession THEN "READY" ELSE "NONE"]

\* Mutant: five minutes of idle time are already too long.
IdleTooLong_AtLeast(s, t) == t - lastActivity[s] >= IdleThreshold

\* Is session s, last active at lastActivity[s], idle for too long at time t?
IdleTooLong(s, t) == t - lastActivity[s] > IdleThreshold

\* The setInterval callback of the reaper.
Sweep ==
    /\ rnow >= nextSweep
    /\ nextSweep' = nextSweep + SWEEP_INTERVAL
    /\ LET idle == {s \in ReaperSessions :
                       isSessionActive(s) /\ IdleTooLong(s, rnow)}
       IN  /\ sess' = [s \in SessionIds |->
                          IF s \in idle THEN forceCloseSession(sess, s)[s]
                          ELSE sess[s]]
           /\ ev' = [kind |-> "sweep", closed |-> idle,
                     kept |-> {s \in ReaperSessions : isSessionActive(s)} \ idle]
    /\ UNCHANGED <<rnow, lastActivity>>

\* An event goes in or out of session s: the registry notes the time.
SessionActivity(s) ==
    /\ isSessionActive(s)
    /\ lastActivity' = [lastActivity EXCEPT ![s] = rnow]
    /\ ev' = NoEvent
    /\ UNCHANGED <<rnow, nextSweep, sess>>

\* A connection arrives and its session is created.
SessionCreated(s) ==
    /\ sess[s] = "NONE"
    /\ sess' = [sess EXCEPT ![s] = "READY"]
    /\ lastActivity' = [lastActivity EXCEPT ![s] = rnow]
    /\ ev' = NoEvent
    /\ UNCHANGED <<rnow, nextSweep>>

\* Time passes on the server; a sweep that is due runs before more passes.
ReaperTick ==
    /\ rnow + RTick <= MaxRTime
    /\ rnow < nextSweep
    /\ rnow' = rnow + RTick
    /\ ev' = NoEvent
    /\ UNCHANGED <<nextSweep, lastActivity, sess>>

ReaperStep(A) ==
    A /\ UNCHANGED <<cvars, pvars, tvars, session, srvSessionInitialized,
                     shadow, nextShadow, dvars, hdlVars, relayVars, gvars,
                     playVars, histVars, reapedAt, connected>>

NextReaper ==
    \/ ReaperStep(Sweep)
    \/ ReaperStep(\E s \in ReaperSessions : SessionActivity(s))
    \/ ReaperStep(\E s \in ReaperSessions : SessionCreated(s))
    \/ ReaperStep(ReaperTick)

SpecReaper == InitReaper /\ [][NextReaper]_vars

\* C8: after a disconnect that finds the session active, the session is
\* CLOSED once the 2000 ms of the cleanup have passed or the graceful chain
\* has finished, also when a call of the chain never returns.
C8_ClosedWithinBound ==
    (disc /\ wasActive /\ (dnow > deadline \/ gpc = "done"))
       => sess[session] = "CLOSED"

C8_Witness ==
    /\ disc /\ wasActive /\ dnow > deadline
    /\ gpc = "endPrompt"
    /\ sess[session] = "CLOSED"

\* C9: in the graceful chain a throwing endAudioContent is followed by
\* endPrompt, a throwing endPrompt by close, and a throwing close by
\* forceCloseSession.
C9_FaultDoesNotAbort ==
    /\ "endAudioContent" \in failed =>
          (Len(calls) >= 2 /\ calls[2] = "endPrompt")
    /\ "endPrompt" \in failed =>
          (Len(calls) >= 3 /\ calls[3] = "close")
    /\ "close" \in failed =>
          (Len(calls) = 4 /\ calls[4] = "forceCloseSession"
             /\ sess[session] = "CLOSED")
    /\ gpc = "done" => SubSeq(calls, 1, 3) = <<"endAudioContent", "endPrompt", "close">>

C9_Witness ==
    /\ failed = {"endAudioContent", "endPrompt", "close"}
    /\ gpc = "done"
    /\ dtimer = "armed"

\* The time of the last sweep (below SWEEP_INTERVAL: there has been none).
LastSweep == nextSweep - SWEEP_INTERVAL

\* C10: a reaper sweep force-closes exactly the active sessions whose last
\* activity is more than 5 minutes before the sweep, so that no session stays
\* active past the first sweep after its idle time exceeds 5 minutes.
C10_ReaperClosesExactlyIdle ==
    /\ ev.kind = "sweep" =>
          /\ \A s \in ev.closed : rnow - lastActivity[s] > IdleThreshold
          /\ \A s \in ev.kept : rnow - lastActivity[s] <= IdleThreshold
          /\ \A s \in ev.closed : sess[s] = "CLOSED"
          /\ \A s \in ev.kept : isSessionActive(s)
    /\ \A s \in ReaperSessions :
          (isSessionActive(s) /\ LastSweep >= SWEEP_INTERVAL)
             => LastSweep - lastActivity[s] <= IdleThreshold

C10_Witness == ev.kind = "sweep" /\ ev.closed # {} /\ ev.kept # {}

\* ------------------------------------------------- server: socket handlers
\* The handlers of one connection (server.ts 82-319).  Every handler is an
\* async function: it runs until its next await, where it is suspended while
\* the session operation is in flight and other handlers may run.  A task is
\* a suspended handler: the call in flight, its outcome, and the calls still
\* to make.
Turn(k) == [role |-> IF k % 2 = 1 THEN "USER" ELSE "ASSISTANT", message |-> k]

\* the histories a client supplies: no turn, or the first turns of a
\* conversation
Histories == {[k \in 1..n |-> Turn(k)] : n \in 0..MaxHistory}

\* the three turns conversationResumption replays when it is given none
DefaultTurns == <<[role |-> "USER", message |-> "hi there"],
                  [role |-> "ASSISTANT", message |-> "Hello!"],
                  [role |-> "USER", message |-> "My name is"]>>

NoArg == "-"

Call(op, arg, tol) == [op |-> op, arg |-> arg, tol |-> tol]

\* tol: a rejection of the call is caught next to it and the handler goes on
audioInputProgram == <<Call("streamAudio", NoArg, FALSE)>>

promptStartProgram(init) ==
    (IF init
     THEN <<Call("endAudioContent", NoArg, TRUE),
            Call("endPrompt", NoArg, TRUE)>>
     ELSE <<>>)
    \o <<Call("setupPromptStart", NoArg, FALSE)>>

systemPromptProgram == <<Call("setupSystemPrompt", NoArg, FALSE)>>

\* a replay of the given turns, last turn first
conversationResumptionProgram_Reversed(conversationHistory) ==
    [k \in 1..Len(conversationHistory) |->
        Call("setupHistory",
             conversationHistory[Len(conversationHistory) + 1 - k], FALSE)]

conversationResumptionProgram(conversationHistory) ==
    IF Len(conversationHistory) > 0
    THEN [k \in 1..Len(conversationHistory) |->
             Call("setupHistory", conversationHistory[k], FALSE)]
    ELSE <<Call("setupHistory", DefaultTurns[1], FALSE),
           Call("setTimeout", NoArg, FALSE),
           Call("setupHistory", DefaultTurns[2], FALSE),
           Call("setTimeout", NoArg, FALSE),
           Call("setupHistory", DefaultTurns[3], FALSE),
           Call("setTimeout", NoArg, FALSE)>>

audioStartProgram == <<Call("setupStartAudio", NoArg, FALSE)>>

reinitializeSessionProgram(init) ==
    IF init
    THEN <<Call("endAudioContent", NoArg, TRUE),
           Call("endPrompt", NoArg, TRUE),
           Call("close", NoArg, TRUE)>>
    ELSE <<>>

\* a stopAudio chain that never reaches close
stopAudioProgram_NoClose ==
    <<Call("endAudioContent", NoArg, FALSE),
      Call("endPrompt", NoArg, FALSE)>>

stopAudioProgram ==
    <<Call("endAudioContent", NoArg, FALSE),
      Call("endPrompt", NoArg, FALSE),
      Call("close", NoArg, FALSE)>>

SocketEvents == {"audioInput", "promptStart", "systemPrompt",
                 "conversationResumption", "audioStart",
                 "reinitializeSession", "stopAudio"}

\* the awaited calls of the handler of event h, in order
Program(h, data, init) ==
    CASE h = "audioInput"             -> audioInputProgram
      [] h = "promptStart"            -> promptStartProgram(init)
      [] h = "systemPrompt"           -> systemPromptProgram
      [] h = "conversationResumption" -> conversationResumptionProgram(data)
      [] h = "audioStart"             -> audioStartProgram
      [] h = "reinitializeSession"    -> reinitializeSessionProgram(init)
      [] h = "stopAudio"              -> stopAudioProgram

\* the message of the error event the handler's catch emits
ErrorMessage(h) ==
    CASE h = "audioInput"             -> "Error processing audio"
      [] h = "promptStart"            -> "Error processing prompt start"
      [] h = "systemPrompt"           -> "Error processing system prompt"
      [] h = "conversationResumption" ->
             "Error processing conversation resumption"
      [] h = "audioStart"             -> "Error processing audio start"
      [] h = "reinitializeSession"    -> "Error reinitializing session"
      [] h = "stopAudio"              -> "Error processing streaming end events"
      [] h = "connection"             -> "Failed to initialize session"
      [] h = "initiateSession"        -> "Session initialization error"

\* The outcomes a session operation can have in state st (./client, from the
\* written specification): ending what is not open succeeds as a no-op; a
\* call out of order is rejected and changes nothing; a call in order
\* succeeds, or fails on the way to the model.  "failed": the promise of the
\* call is rejected.
EndOps == {"endAudioContent", "endPrompt"}

Outcomes(op, st) ==
    IF op = "setTimeout" THEN {"ok"}
    ELSE IF op \in EndOps /\ After(op, st) = st THEN {"ok"}
    ELSE IF Accepts(op, st) THEN {"ok", "failed"}
    ELSE {"failed"}

Busy(t) == tasks[t].h # "idle"

FreeTask(t) == /\ ~Busy(t)
               /\ \A u \in TaskSlots : ~Busy(u) => t <= u

\* reinitializeSession handlers that have not created their session yet
Reinitializing == Cardinality({t \in TaskSlots :
                                  tasks[t].h = "reinitializeSession"})

\* The handler h has made all its calls: what it does before it returns.
\* createOk: createStreamSession does not throw.
Return(t, h, log, createOk) ==
    /\ tasks' = [tasks EXCEPT ![t] = IdleTask]
    /\ CASE h = "audioStart" ->
              /\ srvSessionInitialized' = TRUE
              /\ ev' = [kind |-> "finished", h |-> h, log |-> log,
                        out |-> tasks[t].out]
              /\ UNCHANGED <<session, sess, nextShadow, initiating, handlers>>
         [] h = "reinitializeSession" ->
              IF createOk
              THEN /\ sess' = [sess EXCEPT ![nextShadow] = "READY"]
                   /\ session' = nextShadow
                   /\ srvSessionInitialized' = FALSE
                   /\ handlers' = [handlers EXCEPT ![nextShadow] =
                                      @ \o setupSessionEventHandlers]
                   /\ initiating' = [initiating EXCEPT ![nextShadow] = "bare"]
                   /\ nextShadow' = nextShadow + 1
                   /\ ev' = [kind |-> "sessionReinitialized", h |-> h,
                             log |-> log, newSessionId |-> nextShadow]
              ELSE /\ ev' = [kind |-> "error", h |-> h,
                             op |-> "createStreamSession", out |-> "failed",
                             st |-> "NONE", message |-> ErrorMessage(h)]
                   /\ UNCHANGED <<session, sess, srvSessionInitialized,
                                  nextShadow, initiating, handlers>>
         [] OTHER ->
              /\ ev' = [kind |-> "finished", h |-> h, log |-> log,
                        out |-> tasks[t].out]
              /\ UNCHANGED <<session, sess, srvSessionInitialized, nextShadow,
                             initiating, handlers>>

\* The handler h goes on with the calls prog: it makes the first of them on
\* the connection's session and is suspended, or it returns.  i and c count
\* the setupHistory calls it has made and those that have settled.
Proceed(t, h, given, i, c, log, prog, createOk) ==
    IF prog = <<>>
    THEN Return(t, h, log, createOk)
    ELSE LET call == Head(prog)
             st   == sess[session]
             n    == IF call.op = "setupHistory" THEN i + 1 ELSE i
         IN \E out \in Outcomes(call.op, st) :
               /\ sess' = IF out = "ok"
                          THEN [sess EXCEPT ![session] = After(call.op, @)]
                          ELSE sess
               /\ tasks' = [tasks EXCEPT ![t] =
                              [h |-> h, rest |-> Tail(prog), cur |-> call,
                               out |-> out, st |-> st, given |-> given,
                               i |-> n, c |-> c,
                               log |-> Append(log, call.op)]]
               /\ ev' = [kind |-> "call", t |-> t]
               /\ UNCHANGED <<session, srvSessionInitialized, nextShadow,
                              initiating, handlers>>

\* io.on('connection'): create the session under socket.id, start its
\* initiation with a .catch attached, register the handlers.  When
\* createStreamSession throws, the outer catch emits an error event and
\* disconnects the socket.
Connection(createOk) ==
    /\ conn = "none"
    /\ IF createOk
       THEN /\ conn' = "open"
            /\ sess' = [sess EXCEPT ![SocketSession] = "READY"]
            /\ session' = SocketSession
            /\ initiating' = [initiating EXCEPT ![SocketSession] = "caught"]
            /\ handlers' = [handlers EXCEPT ![SocketSession] =
                               @ \o setupSessionEventHandlers]
            /\ ev' = [kind |-> "sessionId", sessionId |-> SocketSession]
       ELSE /\ conn' = "dropped"
            /\ ev' = [kind |-> "error", h |-> "connection",
                      op |-> "createStreamSession", out |-> "failed",
                      st |-> "NONE", message |-> ErrorMessage("connection")]
            /\ UNCHANGED <<sess, session, initiating, handlers>>
    /\ UNCHANGED <<tasks, srvSessionInitialized, nextShadow>>

\* The promise of initiateSession(id) settles.  A rejection reaches the
\* .catch when one is attached ("caught") and nothing otherwise ("bare").
InitiateSettles(id, ok) ==
    /\ initiating[id] # "idle"
    /\ initiating' = [initiating EXCEPT ![id] = "idle"]
    /\ ev' = IF ok THEN [kind |-> "initiated", id |-> id]
             ELSE [kind |-> "initiateFailed", id |-> id,
                   reported |-> initiating[id] = "caught",
                   message |-> IF initiating[id] = "caught"
                               THEN ErrorMessage("initiateSession")
                               ELSE "none"]
    /\ UNCHANGED <<conn, tasks, sess, session, srvSessionInitialized,
                   nextShadow, handlers>>

\* socket.on(h, ...): the event arrives and its handler runs to its first
\* await.
Receive(h, data, createOk) ==
    /\ conn = "open"
    /\ h = "reinitializeSession" =>
          /\ nextShadow + Reinitializing <= MaxReinit
          /\ nextShadow + Reinitializing <= MaxShadow
    /\ \E t \in TaskSlots :
          /\ FreeTask(t)
          /\ Proceed(t, h, data, 0, 0, <<>>,
                     Program(h, data, srvSessionInitialized), createOk)
    /\ UNCHANGED conn

\* Resume with a catch that swallows the failure
Resume_SilentCatch(t, createOk) ==
    /\ Busy(t)
    /\ LET k == tasks[t]
           c == IF k.cur.op = "setupHistory" THEN k.c + 1 ELSE k.c
       IN IF k.out = "ok" \/ k.cur.tol
          THEN Proceed(t, k.h, k.given, k.i, c, k.log, k.rest, createOk)
          ELSE /\ tasks' = [tasks EXCEPT ![t] = IdleTask]
               /\ ev' = [kind |-> "finished", h |-> k.h, log |-> k.log,
                         out |-> k.out]
               /\ UNCHANGED <<sess, session, srvSessionInitialized,
                              nextShadow, initiating, handlers>>
    /\ UNCHANGED conn

\* The call a handler awaits has settled: the handler goes on after a
\* success or a tolerated rejection, and otherwise its catch emits the error
\* event and the handler returns.
Resume(t, createOk) ==
    /\ Busy(t)
    /\ LET k == tasks[t]
           c == IF k.cur.op = "setupHistory" THEN k.c + 1 ELSE k.c
       IN IF k.out = "ok" \/ k.cur.tol
          THEN Proceed(t, k.h, k.given, k.i, c, k.log, k.rest, createOk)
          ELSE /\ tasks' = [tasks EXCEPT ![t] = IdleTask]
               /\ ev' = [kind |-> "error", h |-> k.h, op |-> k.cur.op,
                         out |-> k.out, st |-> k.st,
                         message |-> ErrorMessage(k.h)]
               /\ UNCHANGED <<sess, session, srvSessionInitialized,
                              nextShadow, initiating, handlers>>
    /\ UNCHANGED conn

\* a step of the connection's handlers leaves the client, the cleanup, the
\* reaper and the relay's queues alone
ServerStep(A) ==
    A /\ UNCHANGED <<cvars, pvars, tvars, shadow, dvars, reapVars, gvars,
                     outq, emitted, produced, playVars, histVars, reapedAt, connected>>

\* SpecServer: the connection is open and its session created; the client
\* sends the priming events, audio and stopAudio in any order.
InitServer ==
    /\ ClientInit
    /\ HandlersInit
    /\ CleanupInit
    /\ ReaperInit
    /\ session = SocketSession
    /\ srvSessionInitialized = FALSE
    /\ shadow = NULL
    /\ nextShadow = 1
    /\ sess = [i \in SessionIds |-> IF i = SocketSession THEN "READY" ELSE "NONE"]

NextServer ==
    \/ ServerStep(\E h \in SocketEvents \ {"conversationResumption",
                                            "reinitializeSession"} :
                      Receive(h, <<>>, TRUE))
    \/ ServerStep(\E data \in Histories :
                      Receive("conversationResumption", data, TRUE))
    \/ ServerStep(\E t \in TaskSlots : Resume(t, TRUE))

SpecServer == InitServer /\ [][NextServer]_vars

\* SpecReinit: from before the connection; the client primes the session and
\* asks for its replacement.
InitReinit ==
    /\ ClientInit
    /\ CleanupInit
    /\ ReaperInit
    /\ conn = "none"
    /\ tasks = [t \in TaskSlots |-> IdleTask]
    /\ initiating = [i \in SessionIds |-> "idle"]
    /\ handlers = [i \in SessionIds |-> <<>>]
    /\ outq = [i \in SessionIds |-> <<>>]
    /\ emitted = <<>>
    /\ produced = <<>>
    /\ session = NULL
    /\ srvSessionInitialized = FALSE
    /\ shadow = NULL
    /\ nextShadow = 1
    /\ sess = [i \in SessionIds |-> "NONE"]

NextReinit ==
    \/ ServerStep(\E createOk \in BOOLEAN : Connection(createOk))
    \/ ServerStep(\E id \in SessionIds, ok \in BOOLEAN :
                      InitiateSettles(id, ok))
    \/ ServerStep(\E h \in {"promptStart", "systemPrompt", "audioStart",
                              "reinitializeSession"},
                     createOk \in BOOLEAN : Receive(h, <<>>, createOk))
    \/ ServerStep(\E t \in TaskSlots, createOk \in BOOLEAN :
                      Resume(t, createOk))

SpecReinit == InitReinit /\ [][NextReinit]_vars

\* ------------------------------------------------- claims on the handlers
\* the call the step just taken has made, when it made one
Called(op) == ev.kind = "call" /\ tasks[ev.t].cur.op = op

\* C11: streamAudio succeeds only on a session whose audio content block is
\* open (AUDIO_ACTIVE); an audioInput handled in any other state fails and
\* leaves the session's state as it was, and the handler of a failed
\* audioInput never returns without the error event "Error processing audio".
C11_StreamAudioOnlyWhenActive ==
    /\ Called("streamAudio") =>
          /\ tasks[ev.t].out = "ok" => tasks[ev.t].st = "AUDIO_ACTIVE"
          /\ tasks[ev.t].st # "AUDIO_ACTIVE" =>
                 /\ tasks[ev.t].out = "failed"
                 /\ sess[session] = tasks[ev.t].st
    /\ (ev.kind = "finished" /\ ev.h = "audioInput") => ev.out = "ok"
    /\ (ev.kind = "error" /\ ev.h = "audioInput") =>
          ev.message = "Error processing audio"

C11_Witness ==
    /\ ev.kind = "error" /\ ev.h = "audioInput" /\ ev.op = "streamAudio"
    /\ ev.st = "PRIMED" /\ sess[session] = "PRIMED"

\* C12: endAudioContent and endPrompt with nothing to end succeed and change
\* nothing, however often they are called; the stopAudio handler goes on to
\* endPrompt and to close after them, no error event of the stopAudio handler
\* stems from an end operation that had nothing to end, and a stopAudio
\* handler that returns has called all three.
NothingToEnd(op, st) == op \in EndOps /\ After(op, st) = st

OthersBusy == {tasks[u].h : u \in {v \in TaskSlots \ {ev.t} : Busy(v)}}

\* the states of a session in which a prompt, or a prompt and its audio
\* content block, are open
OpenStates == {"PROMPTED", "SYSTEM_PROMPTED", "PRIMED", "AUDIO_ACTIVE", "ENDING"}

\* C13: setupPromptStart is never called on a session whose prompt or audio
\* content block is still open, whatever events the connection receives.
C13_PromptStartOnlyWhenEnded ==
    Called("setupPromptStart") => tasks[ev.t].st \notin OpenStates

\* C14: setupSystemPrompt is called only when no promptStart handler is
\* still awaiting its calls, and setupStartAudio only when no promptStart,
\* systemPrompt or conversationResumption handler is (the history replay is
\* over), for every interleaving of the handlers.
C14_PrimingInOrder ==
    /\ Called("setupSystemPrompt") => "promptStart" \notin OthersBusy
    /\ Called("setupStartAudio") =>
          OthersBusy \cap {"promptStart", "systemPrompt",
                           "conversationResumption"} = {}

\* C15: a conversationResumption handler calls setupHistory for its next turn
\* only when the call for the turn before has settled, and it replays the
\* turns it was given in the order given.
C15_ReplaySequential ==
    /\ \A t \in TaskSlots :
          tasks[t].h = "conversationResumption" =>
             tasks[t].c <= tasks[t].i /\ tasks[t].i <= tasks[t].c + 1
    /\ Called("setupHistory") =>
          /\ tasks[ev.t].i = tasks[ev.t].c + 1
          /\ tasks[ev.t].given # <<>> =>
                 /\ tasks[ev.t].i <= Len(tasks[ev.t].given)
                 /\ tasks[ev.t].cur.arg = tasks[ev.t].given[tasks[ev.t].i]

C15_Witness ==
    /\ Called("setupHistory")
    /\ Len(tasks[ev.t].given) = MaxHistory
    /\ tasks[ev.t].i = MaxHistory /\ tasks[ev.t].c = MaxHistory - 1
    /\ tasks[ev.t].out = "ok"

\* C16: every turn replayed into the session is a turn of the context the
\* client supplied, at its place; an empty context replays no turn.
C16_ReplayIsContext ==
    Called("setupHistory") =>
       /\ tasks[ev.t].i <= Len(tasks[ev.t].given)
       /\ tasks[ev.t].cur.arg = tasks[ev.t].given[tasks[ev.t].i]

\* C17: a rejection of initiateSession, for the session of the connection and
\* for one created by reinitializeSession alike, reaches a catch that emits
\* an error event; none is left unhandled.
C17_InitiateFailuresReported == ev.kind = "initiateFailed" => ev.reported

\* C18: the failure of a session operation is answered with an error event
\* that carries a message, and the socket is never disconnected for it.
C18_FailuresReportedSocketStays ==
    /\ conn # "dropped"
    /\ ev.kind = "error" => ev.message # "none"
    /\ ev.kind = "initiateFailed" => ev.message # "none"

\* C20: at most one of the sessions created for the socket is live in the
\* registry, before, during and after reinitializeSession.
C20_OneLiveSession ==
    Cardinality({i \in SessionIds : isSessionActive(i)}) <= 1

\* ------------------------------------------------- server: event relay
\* A session produces an output event (./client): it is queued for the
\* callbacks registered on that session, in the order produced.
SessionOutput(id, e) ==
    /\ isSessionActive(id)
    /\ Len(produced) < MaxOut
    /\ outq' = [outq EXCEPT ![id] = Append(@, e)]
    /\ produced' = Append(produced, [id |-> id, name |-> e])
    /\ ev' = NoEvent
    /\ UNCHANGED emitted

\* The session delivers its oldest undelivered event: every callback
\* registered for it with onEvent runs and emits on the socket.
DispatchEvent(id) ==
    /\ outq[id] # <<>>
    /\ LET e == Head(outq[id])
           On(r) == r.on = e
           called == SelectSeq(handlers[id], On)
       IN emitted' = emitted \o [k \in 1..Len(called) |->
                                   [id |-> id, name |-> called[k].emit]]
    /\ outq' = [outq EXCEPT ![id] = Tail(@)]
    /\ ev' = NoEvent
    /\ UNCHANGED produced

RelayStep(A) ==
    A /\ UNCHANGED <<cvars, pvars, tvars, svars, dvars, reapVars, hdlVars,
                     handlers, gvars, playVars, histVars, reapedAt, connected>>

\* SpecRelay: the connection's session and the one reinitializeSession
\* creates produce output events.
NextRelay ==
    \/ ServerStep(\E createOk \in BOOLEAN :
                      Receive("reinitializeSession", <<>>, createOk))
    \/ ServerStep(\E id \in SessionIds, ok \in BOOLEAN :
                      InitiateSettles(id, ok))
    \/ RelayStep(\E id \in SessionIds, e \in OutputEvents :
                     SessionOutput(id, e))
    \/ RelayStep(\E id \in SessionIds : DispatchEvent(id))

SpecRelay == InitServer /\ [][NextRelay]_vars

\* C19: what the socket has emitted for a session, followed by the session's
\* undelivered events, is what the session has produced: every output event
\* is forwarded once, under its own name, in the order produced.
C19_RelayedOnceInOrder ==
    \A id \in SessionIds :
       LET Of(r) == r.id = id
       IN SelectSeq(emitted, Of)
             \o [k \in 1..Len(outq[id]) |-> [id |-> id, name |-> outq[id][k]]]
          = SelectSeq(produced, Of)

C19_Witness ==
    /\ Len(emitted) = MaxOut
    /\ emitted[1].id = emitted[MaxOut].id
    /\ emitted[1].name = "textOutput" /\ emitted[MaxOut].name = "contentEnd"

\* ------------------------------------------------- client: AudioPlayer.js
\* SpecPlayer: the audio player of the page, driven by the handlers of
\* main.js that call it (audioOutput, contentEnd, stopStreaming, connect,
\* reinitializeSession) and by the browser's timers.  Time is kept relative:
\* sinceLastAudio is Date.now() - lastAudioTime, untilCheck the time left
\* until the interval of startBufferEmptyCheck calls back.

\* the listeners registered for "onBufferEmpty": the one of initAudio
onBufferEmptyListeners == {"initAudio"}

\* AudioContext.close(): the context stops producing output (the promise
\* close() returns settles later; the context is never running again).
Closed(ctxs, c) == IF c = NULL THEN ctxs ELSE [ctxs EXCEPT ![c] = "closed"]

\* workletNode.disconnect() and recorderNode.disconnect()
Disconnected(sets, n) ==
    IF n = NULL THEN sets ELSE [sets EXCEPT ![n].connected = FALSE]

\* the identity of the next object created
FreshCtx == CHOOSE c \in CtxIds :
               contexts[c] = "none" /\ \A d \in 1..(c - 1) : contexts[d] # "none"

FreshNodes == CHOOSE n \in CtxIds :
                 nodeSets[n] = NoNodes /\ \A d \in 1..(n - 1) : nodeSets[d] # NoNodes

\* start(), from the clean-up of the existing nodes to the await of
\* audioWorklet.addModule: the nodes the fields hold are disconnected and a
\* fresh AudioContext is assigned to this.audioContext.
StartCreate ==
    /\ nodeSets' = Disconnected(nodeSets, workletNode)
    /\ workletNode' = NULL
    /\ contexts' = [contexts EXCEPT ![FreshCtx] = "running"]
    /\ audioContext' = FreshCtx

\* start() is called: with a context in this.audioContext it awaits its
\* close(), without one it runs on to the await of addModule.
start ==
    /\ starting.closing + starting.adding < MaxStarts
    /\ Cardinality({c \in CtxIds : contexts[c] # "none"}) + starting.closing
          < MaxCtx
    /\ IF audioContext # NULL
       THEN /\ contexts' = Closed(contexts, audioContext)
            /\ starting' = [starting EXCEPT !.closing = @ + 1]
            /\ UNCHANGED <<audioContext, workletNode, nodeSets>>
       ELSE /\ StartCreate
            /\ starting' = [starting EXCEPT !.adding = @ + 1]
    /\ pev' = [kind |-> "start"]
    /\ UNCHANGED <<pvars, sinceLastAudio, untilCheck, playedSinceNotify,
                   stoppedSince, cvars, tvars, svars, hvars>>

\* A start() suspended at the await of close() goes on.
StartClosed ==
    /\ starting.closing > 0
    /\ StartCreate
    /\ starting' = [closing |-> starting.closing - 1,
                    adding |-> starting.adding + 1]
    /\ pev' = [kind |-> "start"]
    /\ UNCHANGED <<pvars, sinceLastAudio, untilCheck, playedSinceNotify,
                   stoppedSince, cvars, tvars, svars, hvars>>

\* A start() suspended at the await of addModule goes on: it creates the
\* worklet node and the recorder node on this.audioContext, whichever
\* context that is by now, connects them and sets initialized.  fault: the
\* module could not be added or the node could not be created; with
\* this.audioContext null (a stop() in between) the constructor throws.
StartAdded(fault) ==
    /\ starting.adding > 0
    /\ starting' = [starting EXCEPT !.adding = @ - 1]
    /\ IF fault \/ audioContext = NULL
       THEN UNCHANGED <<workletNode, nodeSets, initialized>>
       ELSE /\ nodeSets' = [nodeSets EXCEPT ![FreshNodes] =
                               [ctx |-> audioContext, connected |-> TRUE]]
            /\ workletNode' = FreshNodes
            /\ initialized' = TRUE
    /\ pev' = [kind |-> "start"]
    /\ UNCHANGED <<audioContext, contexts, bufferEmptyCheckInterval,
                   sinceLastAudio, untilCheck, playedSinceNotify, stoppedSince,
                   cvars, tvars, svars, hvars>>

\* Mutant: stop() leaves the interval of the drain check running.
stop_KeepsInterval ==
    /\ contexts' = Closed(contexts, audioContext)
    /\ nodeSets' = Disconnected(nodeSets, workletNode)
    /\ initialized' = FALSE
    /\ audioContext' = NULL
    /\ workletNode' = NULL
    /\ UNCHANGED <<bufferEmptyCheckInterval, untilCheck>>

\* stop(): the interval is cleared, the context closed, the nodes
\* disconnected and the fields reset.
stop ==
    /\ bufferEmptyCheckInterval' = FALSE
    /\ untilCheck' = 0
    /\ contexts' = Closed(contexts, audioContext)
    /\ nodeSets' = Disconnected(nodeSets, workletNode)
    /\ initialized' = FALSE
    /\ audioContext' = NULL
    /\ workletNode' = NULL

\* stopStreaming or reinitializeSession calls audioPlayer.stop().
PlayerStop ==
    /\ stop
    /\ stoppedSince' = TRUE
    /\ pev' = [kind |-> "stop"]
    /\ UNCHANGED <<starting, sinceLastAudio, playedSinceNotify, cvars, tvars,
                   svars, hvars>>

\* socket.on('audioOutput') with content: playAudio, then the flag.  A
\* player that is not initialized drops the frame and returns; one that is
\* records the time, posts the frame to the worklet node (a TypeError while
\* a start() has the node field null, caught by the handler) and sets the
\* interval of the drain check unless there is one.
PlayerAudioOutput ==
    /\ IF ~initialized
       THEN /\ isAudioBufferEmpty' = FALSE
            /\ pev' = [kind |-> "playAudio", enqueued |-> FALSE]
            /\ UNCHANGED <<bufferEmptyCheckInterval, sinceLastAudio, untilCheck,
                           playedSinceNotify, stoppedSince>>
       ELSE /\ sinceLastAudio' = 0
            /\ playedSinceNotify' = TRUE
            /\ IF workletNode = NULL
               THEN /\ pev' = [kind |-> "playAudio", enqueued |-> FALSE]
                    /\ UNCHANGED <<isAudioBufferEmpty, bufferEmptyCheckInterval,
                                   untilCheck, stoppedSince>>
               ELSE /\ pev' = [kind |-> "playAudio", enqueued |-> TRUE]
                    /\ isAudioBufferEmpty' = FALSE
                    /\ stoppedSince' = FALSE
                    /\ bufferEmptyCheckInterval' = TRUE
                    /\ untilCheck' = IF bufferEmptyCheckInterval
                                     THEN untilCheck ELSE CHECK_INTERVAL
    /\ UNCHANGED <<isBackgroundReinitializing, newSessionId,
                   currentAssistantResponseComplete, oldSessionId,
                   hasStartedReinitialization, lastReinitializationTime,
                   sessionIdText, isStreaming, sessionInitialized, role, now,
                   pollTimers, bg, initialized, audioContext, workletNode,
                   contexts, nodeSets, starting, tvars, svars, hvars>>

\* The listener initAudio registers for "onBufferEmpty".
OnBufferEmpty(fault) ==
    IF isBackgroundReinitializing /\ newSessionId # NULL
       /\ currentAssistantResponseComplete
    THEN switchToNewSession(fault, currentAssistantResponseComplete, TRUE)
    ELSE /\ isAudioBufferEmpty' = TRUE
         /\ ev' = NoEvent
         /\ UNCHANGED <<currentAssistantResponseComplete, sessionIdText,
                        isBackgroundReinitializing, newSessionId,
                        oldSessionId, hasStartedReinitialization,
                        lastReinitializationTime, isStreaming,
                        sessionInitialized, c2s, errSinceStart, failedShadow>>

\* Mutant: every check finds the buffer drained.
QuietElapsed_Always == TRUE

\* now - this.lastAudioTime > 100
QuietElapsed == sinceLastAudio > QUIET_WINDOW

\* Mutant: the callback notifies and leaves its interval running.
BufferEmptyCheck_KeepsInterval(fault) ==
    /\ bufferEmptyCheckInterval
    /\ untilCheck = 0
    /\ IF QuietElapsed
       THEN /\ OnBufferEmpty(fault)
            /\ pev' = [kind |-> "bufferEmpty", quiet |-> sinceLastAudio,
                       called |-> [l \in onBufferEmptyListeners |-> 1],
                       played |-> playedSinceNotify, stopped |-> stoppedSince]
            /\ playedSinceNotify' = FALSE
       ELSE /\ pev' = NoEvent
            /\ UNCHANGED <<playedSinceNotify, rvars, sessionIdText, isStreaming,
                           sessionInitialized, c2s, hvars>>
    /\ untilCheck' = CHECK_INTERVAL
    /\ UNCHANGED <<pvars, audioContext, workletNode, contexts,
                   nodeSets, starting, sinceLastAudio, stoppedSince, role, now,
                   pollTimers, bg, acks, svars, lastStart>>

\* The callback of the interval set by startBufferEmptyCheck, every 50 ms:
\* when the quiet window has passed it calls every listener and clears the
\* interval.
BufferEmptyCheck(fault) ==
    /\ bufferEmptyCheckInterval
    /\ untilCheck = 0
    /\ IF QuietElapsed
       THEN /\ OnBufferEmpty(fault)
            /\ bufferEmptyCheckInterval' = FALSE
            /\ untilCheck' = 0
            /\ pev' = [kind |-> "bufferEmpty", quiet |-> sinceLastAudio,
                       called |-> [l \in onBufferEmptyListeners |-> 1],
                       played |-> playedSinceNotify, stopped |-> stoppedSince]
            /\ playedSinceNotify' = FALSE
       ELSE /\ untilCheck' = CHECK_INTERVAL
            /\ pev' = NoEvent
            /\ UNCHANGED <<bufferEmptyCheckInterval, playedSinceNotify, rvars,
                           sessionIdText, isStreaming, sessionInitialized, c2s,
                           hvars>>
    /\ UNCHANGED <<initialized, audioContext, workletNode, contexts,
                   nodeSets, starting, sinceLastAudio, stoppedSince, role, now,
                   pollTimers, bg, acks, svars, lastStart>>

\* Time passes in the browser; an interval that is due calls back before
\* more passes.
PlayerTick ==
    /\ ~(bufferEmptyCheckInterval /\ untilCheck = 0)
    /\ sinceLastAudio' = IF sinceLastAudio + PTick > QuietCap
                         THEN QuietCap ELSE sinceLastAudio + PTick
    /\ untilCheck' = IF bufferEmptyCheckInterval
                     THEN untilCheck - PTick ELSE untilCheck
    /\ pev' = NoEvent
    /\ UNCHANGED <<pvars, audioContext, workletNode, contexts, nodeSets,
                   starting, playedSinceNotify, stoppedSince, cvars, tvars,
                   svars, hvars>>

\* bargeIn(): the message is posted to the worklet node; without a node the
\* call throws.
bargeIn == IF workletNode = NULL THEN "thrown" ELSE "posted"

StopReasons == {"END_TURN", "INTERRUPTED", "NONE"}

\* socket.on('contentEnd') with its stopReason: bargeIn is called in the
\* branch of the TEXT type, when the reason is INTERRUPTED.
PlayerContentEnd(type, stopReason, fault) ==
    /\ ContentEnd(type, fault)
    /\ pev' = [kind |-> "contentEnd", type |-> type, stopReason |-> stopReason,
               bargeIn |-> IF type = "TEXT" /\ stopReason = "INTERRUPTED"
                           THEN bargeIn ELSE "none"]
    /\ UNCHANGED <<audioContext, workletNode, contexts, nodeSets, starting,
                   sinceLastAudio, untilCheck, playedSinceNotify, stoppedSince>>

PlayerStep(A) ==
    A /\ UNCHANGED <<dvars, reapVars, hdlVars, relayVars, histVars, reapedAt, connected>>

NextPlayer ==
    \/ PlayerStep(start)
    \/ PlayerStep(StartClosed)
    \/ PlayerStep(\E f \in BOOLEAN : StartAdded(f))
    \/ PlayerStep(PlayerStop)
    \/ PlayerStep(PlayerAudioOutput)
    \/ PlayerStep(\E f \in BOOLEAN : BufferEmptyCheck(f))
    \/ PlayerStep(PlayerTick)
    \/ PlayerStep(\E t \in {"TEXT", "AUDIO"}, r \in StopReasons, f \in BOOLEAN :
                     PlayerContentEnd(t, r, f))

SpecPlayer == Init /\ [][NextPlayer]_vars

\* FairSpecPlayer: the browser lets time pass and calls back every interval
\* that is due.
FairSpecPlayer ==
    /\ SpecPlayer
    /\ WF_vars(PlayerStep(PlayerTick))
    /\ WF_vars(PlayerStep(\E f \in BOOLEAN : BufferEmptyCheck(f)))

\* ------------------------------------------------- claims on the player
\* C21: a buffer-empty notification calls each registered listener once, and
\* playAudio has been called since the notification before it (the first
\* one: since the player was created).
C21_NotifiedOncePerDrain ==
    pev.kind = "bufferEmpty" =>
       /\ pev.played
       /\ pev.called = [l \in onBufferEmptyListeners |-> 1]

C21_Witness ==
    /\ pev.kind = "bufferEmpty"
    /\ isAudioBufferEmpty
    /\ ~bufferEmptyCheckInterval
    /\ Cardinality({c \in CtxIds : contexts[c] # "none"}) > 1

\* C22: a buffer-empty notification is delivered only at a check that finds
\* more than 100 ms passed since the last playAudio recorded its time (so a
\* playAudio inside the window postpones it); and when playAudio calls come
\* to an end, a pending drain check leads to the notification unless stop()
\* cancels it.
C22_QuietWindow ==
    /\ [](pev.kind = "bufferEmpty" => pev.quiet > QUIET_WINDOW)
    /\ (<>[](pev.kind # "playAudio")) =>
          [](bufferEmptyCheckInterval =>
                <>(pev.kind = "bufferEmpty" \/ pev.kind = "stop"))

\* a notification on a running player, at a check later than the window
\* after the last playAudio
C22_Witness ==
    /\ pev.kind = "bufferEmpty"
    /\ pev.quiet = QuietCap
    /\ pev.played
    /\ ~pev.stopped
    /\ initialized

\* C23: stop() leaves no drain check pending, and no buffer-empty
\* notification is delivered after a stop() until playAudio has enqueued a
\* frame again, which takes a player that has been started again.
C23_StopCancelsCheck ==
    /\ pev.kind = "bufferEmpty" => ~pev.stopped
    /\ stoppedSince => ~bufferEmptyCheckInterval
    /\ ~initialized => ~bufferEmptyCheckInterval

\* a notification after a stop() and a restart
C23_Witness ==
    /\ pev.kind = "bufferEmpty"
    /\ ~pev.stopped
    /\ \E c \in CtxIds : contexts[c] = "closed"
    /\ audioContext # NULL
    /\ starting = [closing |-> 0, adding |-> 0]

\* the output resources that are live
LiveContexts == {c \in CtxIds : contexts[c] = "running"}

LiveNodeSets == {n \in CtxIds : /\ nodeSets[n].connected
                                /\ contexts[nodeSets[n].ctx] = "running"}

\* C24: at most one audio context and one worklet node set are live, and
\* they are the ones the player holds; every other one has been closed or
\* disconnected.
C24_OneLiveOutput ==
    /\ LiveContexts \subseteq {audioContext}
    /\ LiveNodeSets \subseteq {workletNode}

\* C25: a contentEnd with stopReason INTERRUPTED, of either type, has
\* bargeIn called.
C25_InterruptedBargesIn ==
    (pev.kind = "contentEnd" /\ pev.stopReason = "INTERRUPTED")
       => pev.bargeIn # "none"

\* ------------------------------------------------- claims on the cleanup race
\* C26: once forceCloseSession has been called during the cleanup, by the
\* 2000 ms timer or by the reaper, the session is CLOSED, and it is CLOSED
\* in every later state, whatever the graceful chain still does.
C26_ForceCloseWins ==
    (dtimer = "fired" \/ reapedAt # "no") => sess[session] = "CLOSED"

\* the reaper closed the session under the first call of the chain, the
\* chain made its remaining calls and the timer fired after it
C26_Witness ==
    /\ reapedAt = "endAudioContent"
    /\ gpc = "done"
    /\ {"endAudioContent", "endPrompt"} \subseteq failed
    /\ dtimer = "fired"
    /\ sess[session] = "CLOSED"

\* C27: the loser of the race does nothing more: the timer does not fire
\* (and call forceCloseSession) once the graceful chain is done, and the
\* chain makes no further call once the timer has fired.
C27_LoserSuppressed ==
    [][/\ gpc = "done" => dtimer' = dtimer
       /\ dtimer = "fired" => calls' = calls]_vars

\* ------------------------------------------------- claims on the handover
\* the three facts the handover waits for
ReadyToSwitch ==
    /\ isBackgroundReinitializing
    /\ newSessionId # NULL
    /\ currentAssistantResponseComplete
    /\ isAudioBufferEmpty

\* C28: whenever the shadow session id is known, the assistant response is
\* complete and the buffer has been reported empty, the handover follows (or
\* one of the three facts is withdrawn by a new event), in whatever order
\* they became true.
C28_HandoverLive == ReadyToSwitch ~> (ev.kind = "handover" \/ ~ReadyToSwitch)

addTextMessage(history, r) ==
    Append(history, [role |-> r, message |-> Len(history) + 1])

\* additionalModelFields.generationStage of an assistant contentStart
Stages == {"SPECULATIVE", "FINAL", "absent"}

\* socket.on('contentStart') with its generation stage.  snapshot records
\* chat.history at the moment the handler starts a rollover.
HistContentStart(type, r, stage, fault) ==
    /\ ContentStart(type, r, fault)
    /\ displayAssistantText' =
          IF type = "TEXT" /\ r = "ASSISTANT" /\ stage # "absent"
          THEN stage = "SPECULATIVE" ELSE displayAssistantText
    /\ snapshot' = IF ev'.kind = "start" THEN chatHistory ELSE snapshot
    /\ turnText' = IF type = "TEXT" THEN "ok" ELSE turnText
    /\ UNCHANGED <<chatHistory, sentHistory>>

\* socket.on('textOutput'): the text of the user, and the assistant's when
\* it is displayed, is added to the history.
TextOutput(r) ==
    /\ Len(chatHistory) < MaxTurns
    /\ IF role = "USER" \/ (role = "ASSISTANT" /\ displayAssistantText)
       THEN chatHistory' = addTextMessage(chatHistory, r)
       ELSE UNCHANGED chatHistory
    /\ turnText' = IF role = "ASSISTANT" /\ ~displayAssistantText
                    THEN "dropped" ELSE turnText
    /\ ev' = NoEvent
    /\ UNCHANGED <<cvars, pvars, tvars, svars, gvars, displayAssistantText,
                   snapshot, sentHistory>>

\* A timer of startBackgroundReinitialization fires;
\* backgroundConversationResumption carries chat.history as it is then.
HistBackgroundStep(s, fault) ==
    /\ BackgroundStep(s, fault)
    /\ sentHistory' = IF ~fault /\ bg[s].pc = "emitConversationResumption"
                      THEN chatHistory ELSE sentHistory
    /\ UNCHANGED <<chatHistory, displayAssistantText, snapshot, turnText>>

\* socket.on('contentEnd') with its stopReason, as far as the conversation
\* context goes: END_TURN ends the turn in the history.
HistContentEnd(type, stopReason, fault) ==
    /\ ContentEnd(type, fault)
    /\ turnText' = IF /\ type = "TEXT" /\ role = "ASSISTANT"
                       /\ stopReason = "END_TURN" /\ turnText = "dropped"
                    THEN "lost" ELSE turnText
    /\ UNCHANGED <<chatHistory, displayAssistantText, snapshot, sentHistory>>

HistoryStep(A) ==
    A /\ UNCHANGED <<dvars, reapVars, hdlVars, relayVars, playVars, reapedAt, connected>>

NextHistory ==
    \/ HistoryStep(\E t \in {"TEXT", "AUDIO"}, r \in {"USER", "ASSISTANT"},
                      g \in Stages, f \in BOOLEAN : HistContentStart(t, r, g, f))
    \/ HistoryStep(\E r \in {"USER", "ASSISTANT"} : TextOutput(r))
    \/ HistoryStep(\E s \in Slots, f \in BOOLEAN : HistBackgroundStep(s, f))
    \/ HistoryStep(BackgroundSessionReinitialized /\ UNCHANGED histVars)
    \/ HistoryStep((\E s \in Slots : BackgroundFinish(s)) /\ UNCHANGED histVars)
    \/ HistoryStep((\E ok \in BOOLEAN : ServerBackgroundReinitializeSession(ok))
                      /\ UNCHANGED histVars)
    \/ HistoryStep(ServerBackgroundPriming /\ UNCHANGED histVars)
    \/ HistoryStep(\E t \in {"TEXT", "AUDIO"}, r \in StopReasons,
                      f \in BOOLEAN : HistContentEnd(t, r, f))
    \/ HistoryStep((\E f \in BOOLEAN : Poll(f)) /\ UNCHANGED histVars)

SpecHistory == Init /\ [][NextHistory]_vars

\* C30: once a rollover has emitted its backgroundConversationResumption,
\* the history it carried is chat.history as it was when the rollover
\* started.
C30_ReplayIsSnapshot ==
    \A s \in Slots :
       bg[s].pc \in {"emitAudioStart", "finish"} => sentHistory = snapshot

\* C31: no assistant turn ends with END_TURN having had a textOutput that
\* was not added to chat.history.
C31_AssistantTextKept == turnText # "lost"

\* C32: every audioInput the server handles finds the connection's session
\* with its audio content block open.
C32_StreamedAudioHasBlock ==
    [][RolloverStep(ServerAudioInput) => sess[session] = "AUDIO_ACTIVE"]_vars

\* ------------------------------------------------- claims on reinitializeSession
\* a reinitializeSession handler has called close on the connection's
\* session and has not replaced the session yet
CloseBegun ==
    \E u \in TaskSlots :
       /\ tasks[u].h = "reinitializeSession"
       /\ \E j \in 1..Len(tasks[u].log) : tasks[u].log[j] = "close"

\* C33: no handler of audioInput, promptStart, systemPrompt or audioStart
\* makes its call on the session a reinitializeSession handler is closing,
\* and when sessionReinitialized is emitted the new session is the
\* connection's session, on which every later call is made.
C33_NoCallOnClosingSession ==
    /\ (/\ ev.kind = "call"
        /\ tasks[ev.t].h \in {"audioInput", "promptStart", "systemPrompt",
                              "audioStart"})
          => ~CloseBegun
    /\ ev.kind = "sessionReinitialized" => session = ev.newSessionId

\* ------------------------------------------------- server: disconnect after
\* reinitializeSession
\* One connection whose session may have been replaced before the socket
\* disconnects.  No event is received after the disconnect; handlers that
\* are suspended go on.
NextCleanup ==
    \/ ServerStep(~disc /\ \E createOk \in BOOLEAN : Connection(createOk))
    \/ ServerStep(\E id \in SessionIds, ok \in BOOLEAN :
                      InitiateSettles(id, ok))
    \/ ServerStep(/\ ~disc
                  /\ \E h \in {"audioStart", "reinitializeSession"},
                        createOk \in BOOLEAN : Receive(h, <<>>, createOk))
    \/ ServerStep(\E t \in TaskSlots, createOk \in BOOLEAN :
                      Resume(t, createOk))
    \/ CleanupStep(conn = "open" /\ Disconnect)
    \/ CleanupStep(\E ok \in BOOLEAN : GracefulReturn(ok))
    \/ CleanupStep(DisconnectTimeout)
    \/ CleanupStep(DiscTick)

SpecCleanup == InitReinit /\ [][NextCleanup]_vars

\* the disconnect handler has returned
CleanupFinished ==
    disc /\ (~wasActive \/ gpc = "done" \/ dtimer = "fired")

\* C34: once the disconnect handler has returned, no session created for
\* the socket is active in the registry.
C34_NoSessionLeftLive ==
    CleanupFinished => \A i \in SessionIds : ~isSessionActive(i)

\* ------------------------------------------------- claims on the relay after
\* reinitializeSession
\* C35: an output event delivered by a session that is not the connection's
\* current session is not emitted on the socket.
C35_OnlyCurrentSessionRelayed ==
    [][\A id \in SessionIds :
          (RelayStep(DispatchEvent(id)) /\ id # session)
             => emitted' = emitted]_vars

\* ------------------------------------------------- client: transport disconnect
\* sessionIdElement.textContent after a disconnect, "-"
NoSessionText == -2

\* socket.on('disconnect') of main.js.
ClientDisconnect ==
    /\ connected
    /\ connected' = FALSE
    /\ sessionIdText' = NoSessionText
    /\ sessionInitialized' = FALSE
    /\ ev' = [kind |-> "disconnect"]
    /\ UNCHANGED <<rvars, isStreaming, role, now, pollTimers, bg, pvars,
                   tvars, svars, gvars>>

TransportStep(A) ==
    A /\ UNCHANGED <<dvars, reapVars, hdlVars, relayVars, playVars, histVars,
                     reapedAt>>

\* SpecTransport: a rollover and a disconnect of the socket.  Events of the
\* server arrive, and the server handles events, only while the socket is
\* connected; the timers of the client go on.
NextTransport ==
    \/ RolloverStep(/\ connected
                    /\ \E t \in {"TEXT", "AUDIO"}, r \in {"USER", "ASSISTANT"},
                          f \in BOOLEAN : ContentStart(t, r, f))
    \/ RolloverStep(/\ connected
                    /\ \E t \in {"TEXT", "AUDIO"}, f \in BOOLEAN :
                          ContentEnd(t, f))
    \/ RolloverStep(\E f \in BOOLEAN : Poll(f))
    \/ RolloverStep(connected /\ BackgroundSessionReinitialized)
    \/ RolloverStep(\E s \in Slots, f \in BOOLEAN : BackgroundStep(s, f))
    \/ RolloverStep(\E s \in Slots : BackgroundFinish(s))
    \/ RolloverStep(/\ connected
                    /\ \E ok \in BOOLEAN :
                          ServerBackgroundReinitializeSession(ok))
    \/ RolloverStep(connected /\ ServerBackgroundPriming)
    \/ TransportStep(ClientDisconnect)

SpecTransport == Init /\ [][NextTransport]_vars

\* C36: the client's disconnect handler leaves no rollover in flight:
\* isBackgroundReinitializing is false and newSessionId is null.
C36_DisconnectAbandonsRollover ==
    ev.kind = "disconnect" =>
       ~isBackgroundReinitializing /\ newSessionId = NULL

\* ------------------------------------------------- claims on shadow priming
\* C37: when a call of startBackgroundReinitialization emits a priming
\* event, it is the only call alive and the handover to its shadow session
\* has not happened.
C37_PrimingBeforeHandover ==
    [][\A s \in Slots :
          RolloverStep(BackgroundStep(s, FALSE))
             => /\ Cardinality({t \in Slots : bg[t].pc # "idle"}) <= 1
                /\ sessionIdText # bg[s].sid]_vars

\* ------------------------------------------------- claims on the player and
\* the client's flags
\* C38: if audio stops arriving, every audioOutput that has left
\* isAudioBufferEmpty false is followed by the flag becoming true again.
C38_FlagFollowsPlayer ==
    (<>[](pev.kind # "playAudio")) =>
       []((pev.kind = "playAudio" /\ ~isAudioBufferEmpty)
             => <>isAudioBufferEmpty)

\* ------------------------------------------------- claims on the rollover ids
\* C39: newSessionId and oldSessionId are non-null only while
\* isBackgroundReinitializing is true.
C39_IdsOnlyInFlight ==
    /\ newSessionId # NULL => isBackgroundReinitializing
    /\ oldSessionId # NULL => isBackgroundReinitializing

\* The half of it that every reachable state satisfies.
NewSessionIdOnlyInFlight == newSessionId # NULL => isBackgroundReinitializing

\* C40: bargeIn() raises no error, whatever the state of the player.
C40_BargeInNeverThrows ==
    pev.kind = "contentEnd" => pev.bargeIn # "thrown"

====
